---------------------------- MODULE Spec2Model ----------------------------
(***************************************************************************)
(* A model of the Scholar-Athen paragraph-to-citation pipeline.            *)
(*                                                                         *)
(* Text is modelled as a sequence of one-character strings, so that the    *)
(* string operations of the code (strip, split, endswith, slicing, join)   *)
(* are computed and not assumed.  Python's None is the value None below.   *)
(*                                                                         *)
(* The module holds one state machine per component; every specification   *)
(* runs one component and leaves the variables of the others idle (<<>>).  *)
(***************************************************************************)
EXTENDS Integers, Sequences, FiniteSets, TLC

VARIABLES
    \* extract_keywords_and_summary (Doc-Scraper/archive/ver0/ver11_check_Main.py)
    paragraphs,              \* the list of paragraph strings passed in
    get_summary,             \* parameter
    retry_on_fail,           \* parameter
    idx,                     \* loop index of enumerate(paragraphs)
    extract_pc,              \* position in the function
    keywords_per_paragraph,  \* dict idx -> keyword list
    summary_per_paragraph,   \* dict idx -> summary, None when not get_summary
    call_log,                \* history: the call_llm invocations made so far
    heuristic_idx,           \* history: the indices that took the heuristic
    \* TextExtractor._extract_pdf (Doc-Scraper/archive/ver1/Extractor.py)
    lines,                   \* text.split("\n")
    line_no,                 \* how many lines the loop has consumed
    buffer,                  \* the paragraph being assembled
    paras,                   \* the paragraphs completed so far
    pdf_pc,                  \* position in the function
    extract_impl,            \* which function extracts: TextExtractor.extract or para_processing
    doc_type,                \* the declared document type
    parsers_called,          \* the document parsers opened, in call order
    extract_exc,             \* the exception the extraction raised, or None
    para_ends,               \* for each paragraph, the number of lines read when it was appended
    \* LLMClient.rank_keywords (Doc-Scraper/archive/ver1/LLMClient.py) and
    \* rank_keywords_llm (ver11_check_Main.py, webUI/papers/pipeline.py)
    rank_impl,               \* which of the two implementations runs
    keywords,                \* the keyword list passed in
    ranked,                  \* the list returned
    rank_exc,                \* the exception raised inside the try block, or None
    rank_pc,                 \* position in the function
    \* SemanticRanker.rank (ver6_Main_webUI_view_cit_download/papers/SemanticRanker.py)
    paragraph_summary,       \* the summary text passed in
    papers,                  \* the paper list passed in
    top_k,                   \* parameter
    top_papers,              \* the list returned
    sem_pc,                  \* position in the function
    \* CitationFormatter (ver2_Main_webUI_default_view/papers/CitationFormatter.py)
    paper,                   \* the paper dict passed in
    style,                   \* the style passed in
    now,                     \* the day datetime.now() falls on
    citation,                \* the string returned
    fmt_pc,                  \* position in the function
    paper_given,             \* the paper dict as the caller built it
    citation_log,            \* the style and the text of every call so far
    \* upload_view of the web UI (Doc-Scraper/webUI/papers/views.py, tasks.py, pipeline.py)
    cleaned_paras,           \* the cleaned paragraphs of the uploaded file
    web_idx,                 \* loop index of the running loop
    web_keywords,            \* keywords, by paragraph index
    web_summaries,           \* summaries, by paragraph index
    results,                 \* pipeline_run: for each result dict, its paragraph index
    citations_saved,         \* number of Citation rows created
    llm_response,            \* the HTTP response of the last call_llm
    raised,                  \* the exception on its way to upload_view, or None
    page,                    \* what upload_view answers, or None
    web_pc,                  \* position in upload_view
    \* the pipeline and the storing and viewing of its result (ver1 Runner.py,
    \* ver5 papers/pipeline.py, ver10 papers/tasks.py and papers/views.py)
    pipe_impl,               \* which pipeline runs
    cleaned_paragraphs,      \* the cleaned paragraphs, in document order
    pipe_top_k,              \* top_k
    extracted,               \* keywords and summaries, by 0-based paragraph index
    pipe_idx,                \* loop index of the pipeline
    all_results,             \* the result list
    search_counts,           \* how many papers each search returned, in call order
    citations,               \* the Citation rows of the paper
    save_pos,                \* position of process_paper in all_results
    processing,              \* UploadedPaper.processing
    error_message,           \* UploadedPaper.error_message
    viewer_paragraphs,       \* the paragraphs list viewer_view rendered last
    pipe_pc,                 \* position in the pipeline and in process_paper
    caller,                  \* who runs the pipeline: dashboard_view's thread, or a direct call
    upload_ext,              \* the extension of the uploaded file's name, lower case
    paper_exists,            \* the UploadedPaper row exists
    file_exists,             \* the uploaded file exists in storage
    status_answer,           \* the last answer of check_processing_status
    step_log,                \* the steps taken, each with its 0-based paragraph index
    tasks_impl,              \* which process_paper calls pipeline_run: ver9's or ver10's
    upload_answer,           \* what dashboard_view answered to the upload
    \* ArxivSearcher.build_query (ver9_Main_webUI_llm_lim_err/papers/QueryAPI.py)
    ranked_keywords,         \* the (keyword, score) pairs passed in
    query_summary,           \* the summary passed in
    top_n,                   \* top_n
    query,                   \* the string returned
    query_pc,                \* position in the function
    \* ParagraphCleaner (ver3_Main_webUI_upload_view/papers/Cleaner.py) and
    \* clean_paragraph_spacy (Doc-Scraper/archive/ver0/ver11_check_Main.py)
    clean_impl,              \* which cleaner runs
    clean_input,             \* the paragraphs passed in
    min_words,               \* min_words
    remove_short,            \* remove_short (clean_paragraph_spacy only)
    clean_idx,               \* position in the list of paragraphs
    segmented,               \* for each paragraph done, the sentences the segmenter gave
    kept_sentences,          \* for each paragraph done, the sentences kept
    cleaned,                 \* the list of cleaned paragraphs built so far
    clean_pc,                \* position in the function
    \* the search page of the web application: index
    \* (ver1_Main_webUI/search/views.py)
    request_query,           \* the GET parameter query
    request_page,            \* the GET parameter page, or None when the request has none
    fetched_total,           \* how many results fetch_results gives for the query
    context,                 \* the context handed to the template
    index_pc,                \* position in the view
    \* the Streamlit search page (Metadata-Search/archive/ver7_search_bar.py,
    \* ver8_final.py)
    page_impl,               \* which version of the page runs
    session_query,           \* st.session_state.query
    session_page,            \* st.session_state.page
    results_total,           \* len(results) for the query, cached by st.cache_data
    shown,                   \* what the last run of the script displayed
    reruns                   \* how many times a button was pressed

extractVars == <<paragraphs, get_summary, retry_on_fail, idx, extract_pc,
                 keywords_per_paragraph, summary_per_paragraph, call_log,
                 heuristic_idx>>

pdfVars == <<lines, line_no, buffer, paras, pdf_pc, extract_impl, doc_type, parsers_called,
             extract_exc, para_ends>>

rankVars == <<rank_impl, keywords, ranked, rank_exc, rank_pc>>

semVars == <<paragraph_summary, papers, top_k, top_papers, sem_pc>>

fmtVars == <<paper, style, now, citation, fmt_pc, paper_given, citation_log>>

webVars == <<cleaned_paras, web_idx, web_keywords, web_summaries, results,
             citations_saved, llm_response, raised, page, web_pc>>

pipeVars == <<pipe_impl, cleaned_paragraphs, pipe_top_k, extracted, pipe_idx, all_results,
              search_counts, citations, save_pos, processing, error_message,
              viewer_paragraphs, pipe_pc, caller, upload_ext, paper_exists, file_exists,
              status_answer, step_log, tasks_impl, upload_answer>>

queryVars == <<ranked_keywords, query_summary, top_n, query, query_pc>>

cleanVars == <<clean_impl, clean_input, min_words, remove_short, clean_idx, segmented,
               kept_sentences, cleaned, clean_pc>>

indexVars == <<request_query, request_page, fetched_total, context, index_pc>>

streamVars == <<page_impl, session_query, session_page, results_total, shown, reruns>>

vars == <<extractVars, pdfVars, rankVars, semVars, fmtVars, webVars, pipeVars, queryVars,
          cleanVars, indexVars, streamVars>>

\* what the actions of one component leave alone: the other components
outsideExtract == <<pdfVars, rankVars, semVars, fmtVars, webVars, pipeVars, queryVars,
                    cleanVars, indexVars, streamVars>>
outsidePdf == <<extractVars, rankVars, semVars, fmtVars, webVars, pipeVars, queryVars,
                cleanVars, indexVars, streamVars>>
outsideRank == <<extractVars, pdfVars, semVars, fmtVars, webVars, pipeVars, queryVars,
                 cleanVars, indexVars, streamVars>>
outsideSem == <<extractVars, pdfVars, rankVars, fmtVars, webVars, pipeVars, queryVars,
                cleanVars, indexVars, streamVars>>
outsideFmt == <<extractVars, pdfVars, rankVars, semVars, webVars, pipeVars, queryVars,
                cleanVars, indexVars, streamVars>>
outsideWeb == <<extractVars, pdfVars, rankVars, semVars, fmtVars, pipeVars, queryVars,
                cleanVars, indexVars, streamVars>>
outsidePipe == <<extractVars, pdfVars, rankVars, semVars, fmtVars, webVars, queryVars,
                 cleanVars, indexVars, streamVars>>
outsideQuery == <<extractVars, pdfVars, rankVars, semVars, fmtVars, webVars, pipeVars,
                  cleanVars, indexVars, streamVars>>
outsideClean == <<extractVars, pdfVars, rankVars, semVars, fmtVars, webVars, pipeVars,
                  queryVars, indexVars, streamVars>>
outsideIndex == <<extractVars, pdfVars, rankVars, semVars, fmtVars, webVars, pipeVars,
                  queryVars, cleanVars, streamVars>>
outsideStream == <<extractVars, pdfVars, rankVars, semVars, fmtVars, webVars, pipeVars,
                   queryVars, cleanVars, indexVars>>

-----------------------------------------------------------------------------
(***************************************************************************)
(* Bounds of the model                                                      *)
(***************************************************************************)
MaxParas == 2
MaxLines == 3
MaxKeywords == 2
MaxPapers == 3
MaxTopK == 3
MaxAuthors == 8
MaxMinWords == 2
MaxCalls == 2
MaxResults == 31
MaxPageParam == 4
MaxClicks == 3

-----------------------------------------------------------------------------
(***************************************************************************)
(* Python values and string operations                                      *)
(***************************************************************************)
None == <<"None">>

EmptyDict == [i \in {} |-> None]

Range(s) == {s[i] : i \in DOMAIN s}

\* s[a:b] for 0 <= a, Python's 0-based half-open slice
Slice(s, a, b) ==
    LET hi == IF b > Len(s) THEN Len(s) ELSE b
    IN  IF a >= hi THEN <<>> ELSE SubSeq(s, a + 1, hi)

RECURSIVE LStrip(_)
LStrip(s) == IF s # <<>> /\ Head(s) = " " THEN LStrip(Tail(s)) ELSE s

RECURSIVE RStrip(_)
RStrip(s) ==
    IF s # <<>> /\ s[Len(s)] = " " THEN RStrip(SubSeq(s, 1, Len(s) - 1)) ELSE s

\* str.strip()
Strip(s) == RStrip(LStrip(s))

\* str.split(sep) for a one-character separator: never an empty list
RECURSIVE SplitOn(_, _)
SplitOn(s, sep) ==
    IF \A i \in DOMAIN s : s[i] # sep
    THEN <<s>>
    ELSE LET k == CHOOSE i \in DOMAIN s :
                      s[i] = sep /\ \A j \in 1..(i - 1) : s[j] # sep
         IN  <<SubSeq(s, 1, k - 1)>> \o SplitOn(SubSeq(s, k + 1, Len(s)), sep)

\* str.split() on whitespace: no empty words
SplitWords(s) == SelectSeq(SplitOn(s, " "), LAMBDA w : w # <<>>)

\* sep.join(parts)
RECURSIVE Join(_, _)
Join(sep, parts) ==
    IF parts = <<>> THEN <<>>
    ELSE IF Len(parts) = 1 THEN parts[1]
    ELSE parts[1] \o sep \o Join(sep, Tail(parts))

\* s.endswith(c)
EndsWith(s, c) == s # <<>> /\ s[Len(s)] = c

\* sub in s
Contains(s, sub) ==
    \E i \in 0..(Len(s) - Len(sub)) : SubSeq(s, i + 1, i + Len(sub)) = sub

-----------------------------------------------------------------------------
(***************************************************************************)
(* LLM response texts and json.loads                                        *)
(*                                                                         *)
(* A response text is a sequence of pieces: the code-block fences and the  *)
(* payload.  The re.sub of the code deletes the fences; the payload        *)
(* pieces are the JSON documents json.loads can or cannot decode.          *)
(***************************************************************************)
\* the pieces of a response text: a code-block fence, a JSON document (given
\* by the value it denotes) or prose
Fence == [kind |-> "fence", doc |-> None]
Prose == [kind |-> "prose", doc |-> None]
JsonText(v) == [kind |-> "json", doc |-> v]

\* re.sub(fence pattern, "", llm_text, flags=re.IGNORECASE).strip()
StripFence(llm_text) == SelectSeq(llm_text, LAMBDA p : p # Fence)

\* json.loads: the decoded value, or JSONDecodeError when the text is not
\* exactly one JSON document
JsonLoads(text) ==
    IF Len(text) = 1 /\ text[1].kind = "json"
    THEN [ok |-> TRUE, value |-> text[1].doc]
    ELSE [ok |-> FALSE, value |-> None]

JsonObject(f) == [type |-> "object", fields |-> f]
JsonArray(items) == [type |-> "array", fields |-> items]

\* d.get(key, default); AttributeError when d is not a dict
HasGet(v) == v.type = "object"
DictGet(v, key, default) ==
    IF key \in DOMAIN v.fields THEN v.fields[key] ELSE default

\* the texts the LLM endpoint may answer with: bare or fenced
ResponseTexts(payloads) ==
    {<<pl>> : pl \in payloads} \cup {<<Fence, pl, Fence>> : pl \in payloads}

Kw1 == <<"a", "b">>
Kw2 == <<"b">>
Sum1 == <<"a", " ", "b">>

\* the answers to the extraction prompt
ExtractPayloads ==
    { JsonText(JsonObject([keywords |-> <<Kw1, Kw2>>, summary |-> Sum1])),
      JsonText(JsonObject([keywords |-> <<Kw2>>])),
      JsonText(JsonObject([summary |-> Sum1])),
      JsonText(JsonArray(<<Kw1>>)),
      Prose }

-----------------------------------------------------------------------------
(***************************************************************************)
(* extract_keywords_and_summary, ver11_check_Main.py lines 196-273          *)
(***************************************************************************)
ParaTexts ==
    { <<"a", " ", "b", ".", " ", "b", ".">>,
      <<"b", ".", ".", "a">>,
      <<" ">>,
      \* nine sentences, one more than the heuristic keeps
      <<"a", ".", "b", ".", "a", ".", "b", ".", "a", ".", "b", ".", "a", ".", "b", ".",
        " ", "b", " ", "a">> }

RECURSIVE SeqsUpTo(_, _)
SeqsUpTo(S, n) ==
    IF n = 0 THEN {<<>>}
    ELSE LET shorter == SeqsUpTo(S, n - 1)
         IN  shorter \cup {Append(s, x) : s \in shorter, x \in S}

\* line 264-267: the heuristic fallback
HeuristicKeywordCap == 8

\* the heuristic without the cut
HeuristicKeywordsUncut(paragraph) ==
    LET sentences == SplitOn(paragraph, ".")
        kept == SelectSeq(sentences, LAMBDA s : Strip(s) # <<>>)
    IN  [i \in DOMAIN kept |-> SplitWords(Strip(kept[i]))[1]]

HeuristicKeywords(paragraph) ==
    LET sentences == SplitOn(paragraph, ".")
        kept == SelectSeq(sentences, LAMBDA s : Strip(s) # <<>>)
    IN  Slice([i \in DOMAIN kept |-> SplitWords(Strip(kept[i]))[1]],
              0, HeuristicKeywordCap)

HeuristicSummary(paragraph) ==
    LET sentences == SplitOn(paragraph, ".")
    IN  IF sentences # <<>> THEN Strip(sentences[1]) ELSE None

\* summary_per_paragraph[idx] = v, only when get_summary
SetSummary(v) ==
    IF get_summary THEN summary_per_paragraph @@ (idx :> v)
    ELSE summary_per_paragraph

\* lines 269-271: print(... summary_per_paragraph[idx][:60] ...) raises
\* TypeError when the stored summary is None
PrintRaises(summary) == get_summary /\ summary = None

\* lines 239-242: where a failed first parse goes
AfterFirstFailure == IF retry_on_fail THEN "retry" ELSE "heuristic"

\* a retry that is made again after its own parse failure
AfterRetryFailureAgain == "retry"

\* lines 262-264: a failed retry parse falls through to the heuristic
AfterRetryFailure == "heuristic"

ExtractInit ==
    /\ paragraphs \in SeqsUpTo(ParaTexts, MaxParas)
    /\ get_summary \in BOOLEAN
    /\ retry_on_fail \in BOOLEAN
    /\ idx = 0
    /\ extract_pc = "call"
    /\ keywords_per_paragraph = EmptyDict
    /\ summary_per_paragraph = IF get_summary THEN EmptyDict ELSE None
    /\ call_log = <<>>
    /\ heuristic_idx = {}
    /\ lines = <<>> /\ line_no = <<>> /\ buffer = <<>> /\ paras = <<>> /\ pdf_pc = <<>>
    /\ extract_impl = <<>> /\ doc_type = <<>> /\ parsers_called = <<>> /\ extract_exc = <<>>
    /\ para_ends = <<>>
    /\ rank_impl = <<>> /\ keywords = <<>> /\ ranked = <<>> /\ rank_exc = <<>> /\ rank_pc = <<>>
    /\ paragraph_summary = <<>> /\ papers = <<>> /\ top_k = <<>> /\ top_papers = <<>> /\ sem_pc = <<>>
    /\ paper = <<>> /\ style = <<>> /\ now = <<>> /\ citation = <<>> /\ fmt_pc = <<>>
    /\ paper_given = <<>> /\ citation_log = <<>>
    /\ cleaned_paras = <<>> /\ web_idx = <<>> /\ web_keywords = <<>> /\ web_summaries = <<>>
    /\ results = <<>> /\ citations_saved = <<>> /\ llm_response = <<>> /\ raised = <<>>
    /\ page = <<>> /\ web_pc = <<>>
    /\ pipe_impl = <<>> /\ cleaned_paragraphs = <<>> /\ pipe_top_k = <<>> /\ extracted = <<>>
    /\ pipe_idx = <<>> /\ all_results = <<>> /\ search_counts = <<>> /\ citations = <<>>
    /\ save_pos = <<>> /\ processing = <<>> /\ error_message = <<>>
    /\ viewer_paragraphs = <<>> /\ pipe_pc = <<>>
    /\ caller = <<>> /\ upload_ext = <<>> /\ paper_exists = <<>> /\ file_exists = <<>>
    /\ status_answer = <<>> /\ step_log = <<>> /\ tasks_impl = <<>> /\ upload_answer = <<>>
    /\ ranked_keywords = <<>> /\ query_summary = <<>> /\ top_n = <<>> /\ query = <<>>
    /\ query_pc = <<>>
    /\ clean_impl = <<>> /\ clean_input = <<>> /\ min_words = <<>> /\ remove_short = <<>>
    /\ clean_idx = <<>> /\ segmented = <<>> /\ kept_sentences = <<>> /\ cleaned = <<>>
    /\ clean_pc = <<>>
    /\ request_query = <<>> /\ request_page = <<>> /\ fetched_total = <<>> /\ context = <<>>
    /\ index_pc = <<>>
    /\ page_impl = <<>> /\ session_query = <<>> /\ session_page = <<>> /\ results_total = <<>>
    /\ shown = <<>> /\ reruns = <<>>

\* lines 215-240, 269-271: the first call of a paragraph and the parse of its answer
ExtractFirstCall ==
    /\ extract_pc = "call"
    /\ idx < Len(paragraphs)
    /\ \E llm_text \in ResponseTexts(ExtractPayloads) :
         LET parsed == JsonLoads(StripFence(llm_text))
             summary == DictGet(parsed.value, "summary", None)
         IN  /\ call_log' = Append(call_log,
                    [idx |-> idx, prompt |-> "first", parsed |-> parsed.ok])
             /\ IF ~parsed.ok
                THEN /\ extract_pc' = AfterFirstFailure
                     /\ UNCHANGED <<idx, keywords_per_paragraph, summary_per_paragraph>>
                ELSE IF ~HasGet(parsed.value)
                THEN /\ extract_pc' = "raised"
                     /\ UNCHANGED <<idx, keywords_per_paragraph, summary_per_paragraph>>
                ELSE /\ keywords_per_paragraph' = keywords_per_paragraph @@
                            (idx :> DictGet(parsed.value, "keywords", <<>>))
                     /\ summary_per_paragraph' = SetSummary(summary)
                     /\ IF PrintRaises(summary)
                        THEN extract_pc' = "raised" /\ UNCHANGED idx
                        ELSE extract_pc' = "call" /\ idx' = idx + 1
    /\ UNCHANGED <<paragraphs, get_summary, retry_on_fail, heuristic_idx>>
    /\ UNCHANGED outsideExtract

\* lines 241-263: the retry with the stricter prompt; a parsed retry continues
ExtractRetryCall ==
    /\ extract_pc = "retry"
    /\ \E llm_text \in ResponseTexts(ExtractPayloads) :
         LET parsed == JsonLoads(StripFence(llm_text))
         IN  /\ call_log' = Append(call_log,
                    [idx |-> idx, prompt |-> "retry", parsed |-> parsed.ok])
             /\ IF ~parsed.ok
                THEN /\ extract_pc' = AfterRetryFailure
                     /\ UNCHANGED <<idx, keywords_per_paragraph, summary_per_paragraph>>
                ELSE IF ~HasGet(parsed.value)
                THEN /\ extract_pc' = "raised"
                     /\ UNCHANGED <<idx, keywords_per_paragraph, summary_per_paragraph>>
                ELSE /\ keywords_per_paragraph' = keywords_per_paragraph @@
                            (idx :> DictGet(parsed.value, "keywords", <<>>))
                     /\ summary_per_paragraph' =
                            SetSummary(DictGet(parsed.value, "summary", None))
                     /\ extract_pc' = "call"
                     /\ idx' = idx + 1
    /\ UNCHANGED <<paragraphs, get_summary, retry_on_fail, heuristic_idx>>
    /\ UNCHANGED outsideExtract

\* lines 264-271: the heuristic fallback
ExtractHeuristic ==
    /\ extract_pc = "heuristic"
    /\ keywords_per_paragraph' = keywords_per_paragraph @@
           (idx :> HeuristicKeywords(paragraphs[idx + 1]))
    /\ summary_per_paragraph' = SetSummary(HeuristicSummary(paragraphs[idx + 1]))
    /\ heuristic_idx' = heuristic_idx \cup {idx}
    /\ IF PrintRaises(HeuristicSummary(paragraphs[idx + 1]))
       THEN extract_pc' = "raised" /\ UNCHANGED idx
       ELSE extract_pc' = "call" /\ idx' = idx + 1
    /\ UNCHANGED <<paragraphs, get_summary, retry_on_fail, call_log>>
    /\ UNCHANGED outsideExtract

\* line 273
ExtractReturn ==
    /\ extract_pc = "call"
    /\ idx = Len(paragraphs)
    /\ extract_pc' = "returned"
    /\ UNCHANGED <<paragraphs, get_summary, retry_on_fail, idx,
                   keywords_per_paragraph, summary_per_paragraph, call_log,
                   heuristic_idx>>
    /\ UNCHANGED outsideExtract

ExtractNext ==
    \/ ExtractFirstCall
    \/ ExtractRetryCall
    \/ ExtractHeuristic
    \/ ExtractReturn

SpecExtract == ExtractInit /\ [][ExtractNext]_vars

-----------------------------------------------------------------------------
(***************************************************************************)
(* TextExtractor._extract_pdf, Extractor.py lines 18-42 (the same loop is   *)
(* extract_pdf_text of webUI/papers/pipeline.py lines 32-57), entered       *)
(* through TextExtractor.extract, Extractor.py lines 10-16, or through      *)
(* para_processing, webUI/papers/pipeline.py lines 75-84, which choose the  *)
(* parser by the declared document type.  The file exists.                  *)
(***************************************************************************)
\* the lines a page's text may hold
LineTexts ==
    { <<"a", "-">>,
      <<"b", ".">>,
      <<"a", " ", "b">>,
      <<" ", "b", " ">>,
      <<"-">>,
      <<" ">>,
      <<>> }

Terminators == {".", "?", "!"}

\* a buffer that takes nothing from a line ending with a hyphen
BufferAfterLineDropsHyphenated(buf, line) ==
    IF EndsWith(line, "-") THEN buf ELSE buf \o <<" ">> \o line

\* lines 32-39: what one non-blank (stripped) line adds to the buffer
BufferAfterLine(buf, line) ==
    IF EndsWith(line, "-")
    THEN buf \o Slice(line, 0, Len(line) - 1)
    ELSE buf \o <<" ">> \o line

ExtractImpls == {"TextExtractor.extract", "para_processing"}

DocTypes == {"pdf", "docx", "txt"}

\* Extractor.py line 46, pipeline.py line 61: the stripped text of every
\* paragraph of the document that has any
DocxParagraphs(texts) ==
    LET stripped == [i \in DOMAIN texts |-> Strip(texts[i])]
    IN  SelectSeq(stripped, LAMBDA t : t # <<>>)

\* lines 19-24: every page's text is followed by a newline, so the split
\* ends with an empty line
PdfInit ==
    /\ lines \in {Append(ls, <<>>) : ls \in SeqsUpTo(LineTexts, MaxLines)}
    /\ line_no = 0
    /\ buffer = <<>>
    /\ paras = <<>>
    /\ pdf_pc = "dispatch"
    /\ extract_impl \in ExtractImpls
    /\ doc_type \in DocTypes
    /\ parsers_called = <<>>
    /\ extract_exc = None
    /\ para_ends = <<>>
    /\ paragraphs = <<>> /\ get_summary = <<>> /\ retry_on_fail = <<>> /\ idx = <<>>
    /\ extract_pc = <<>> /\ keywords_per_paragraph = <<>>
    /\ summary_per_paragraph = <<>> /\ call_log = <<>> /\ heuristic_idx = <<>>
    /\ rank_impl = <<>> /\ keywords = <<>> /\ ranked = <<>> /\ rank_exc = <<>> /\ rank_pc = <<>>
    /\ paragraph_summary = <<>> /\ papers = <<>> /\ top_k = <<>> /\ top_papers = <<>> /\ sem_pc = <<>>
    /\ paper = <<>> /\ style = <<>> /\ now = <<>> /\ citation = <<>> /\ fmt_pc = <<>>
    /\ paper_given = <<>> /\ citation_log = <<>>
    /\ cleaned_paras = <<>> /\ web_idx = <<>> /\ web_keywords = <<>> /\ web_summaries = <<>>
    /\ results = <<>> /\ citations_saved = <<>> /\ llm_response = <<>> /\ raised = <<>>
    /\ page = <<>> /\ web_pc = <<>>
    /\ pipe_impl = <<>> /\ cleaned_paragraphs = <<>> /\ pipe_top_k = <<>> /\ extracted = <<>>
    /\ pipe_idx = <<>> /\ all_results = <<>> /\ search_counts = <<>> /\ citations = <<>>
    /\ save_pos = <<>> /\ processing = <<>> /\ error_message = <<>>
    /\ viewer_paragraphs = <<>> /\ pipe_pc = <<>>
    /\ caller = <<>> /\ upload_ext = <<>> /\ paper_exists = <<>> /\ file_exists = <<>>
    /\ status_answer = <<>> /\ step_log = <<>> /\ tasks_impl = <<>> /\ upload_answer = <<>>
    /\ ranked_keywords = <<>> /\ query_summary = <<>> /\ top_n = <<>> /\ query = <<>>
    /\ query_pc = <<>>
    /\ clean_impl = <<>> /\ clean_input = <<>> /\ min_words = <<>> /\ remove_short = <<>>
    /\ clean_idx = <<>> /\ segmented = <<>> /\ kept_sentences = <<>> /\ cleaned = <<>>
    /\ clean_pc = <<>>
    /\ request_query = <<>> /\ request_page = <<>> /\ fetched_total = <<>> /\ context = <<>>
    /\ index_pc = <<>>
    /\ page_impl = <<>> /\ session_query = <<>> /\ session_page = <<>> /\ results_total = <<>>
    /\ shown = <<>> /\ reruns = <<>>

\* Extractor.py lines 10-16 and 19, 45; pipeline.py lines 79-82 and 33, 60:
\* the parser is chosen and opened.  TextExtractor.extract raises for a type
\* that is neither pdf nor docx; para_processing gives every type but pdf to
\* the docx parser, which raises when the file is no docx package and reads
\* it when it is one.
PdfDispatch ==
    /\ pdf_pc = "dispatch"
    /\ IF doc_type = "pdf"
       THEN /\ parsers_called' = Append(parsers_called, "fitz")
            /\ pdf_pc' = "loop"
            /\ UNCHANGED <<paras, extract_exc>>
       ELSE IF doc_type # "docx" /\ extract_impl = "TextExtractor.extract"
       THEN /\ extract_exc' = <<"ValueError">>
            /\ pdf_pc' = "raised"
            /\ UNCHANGED <<paras, parsers_called>>
       ELSE /\ parsers_called' = Append(parsers_called, "docx")
            /\ \/ /\ paras' = DocxParagraphs(lines)
                  /\ pdf_pc' = "returned"
                  /\ UNCHANGED extract_exc
               \/ /\ doc_type # "docx"
                  /\ extract_exc' = <<"PackageNotFoundError">>
                  /\ pdf_pc' = "raised"
                  /\ UNCHANGED paras
    /\ UNCHANGED <<lines, line_no, buffer, extract_impl, doc_type, para_ends>>
    /\ UNCHANGED outsidePdf

\* lines 25-39: one iteration of the loop over the lines
PdfLine ==
    /\ pdf_pc = "loop"
    /\ line_no < Len(lines)
    /\ LET line == Strip(lines[line_no + 1])
       IN  IF line = <<>>
           THEN IF buffer # <<>>
                THEN /\ paras' = Append(paras, Strip(buffer))
                     /\ para_ends' = Append(para_ends, line_no + 1)
                     /\ buffer' = <<>>
                ELSE UNCHANGED <<paras, buffer, para_ends>>
           ELSE IF ~EndsWith(line, "-") /\ line[Len(line)] \in Terminators
                THEN /\ paras' = Append(paras, Strip(BufferAfterLine(buffer, line)))
                     /\ para_ends' = Append(para_ends, line_no + 1)
                     /\ buffer' = <<>>
                ELSE /\ buffer' = BufferAfterLine(buffer, line)
                     /\ UNCHANGED <<paras, para_ends>>
    /\ line_no' = line_no + 1
    /\ UNCHANGED <<lines, pdf_pc, extract_impl, doc_type, parsers_called, extract_exc>>
    /\ UNCHANGED outsidePdf

\* lines 40-42: the last flush and the return
PdfReturn ==
    /\ pdf_pc = "loop"
    /\ line_no = Len(lines)
    /\ IF buffer # <<>>
       THEN /\ paras' = Append(paras, Strip(buffer))
            /\ para_ends' = Append(para_ends, Len(lines) + 1)
       ELSE UNCHANGED <<paras, para_ends>>
    /\ pdf_pc' = "returned"
    /\ UNCHANGED <<lines, line_no, buffer, extract_impl, doc_type, parsers_called,
                   extract_exc>>
    /\ UNCHANGED outsidePdf

PdfNext ==
    \/ PdfDispatch
    \/ PdfLine
    \/ PdfReturn

SpecPdf == PdfInit /\ [][PdfNext]_vars

-----------------------------------------------------------------------------
(***************************************************************************)
(* Properties of the PDF paragraph reconstruction                           *)
(***************************************************************************)
\* C5: a line that ends with a hyphen is rejoined with the line after it: the
\* hyphen is dropped and the next line's text follows with no space in between,
\* and the hyphen-ended line is separated by a space from the text already in
\* the buffer.
C5_HyphenatedWordsRejoined ==
    (doc_type = "pdf" /\ pdf_pc = "returned") =>
        \A k \in 1..(Len(lines) - 1) :
            LET line == Strip(lines[k])
                following == Strip(lines[k + 1])
                stem == Slice(line, 0, Len(line) - 1)
                before == IF k > 1 THEN Strip(lines[k - 1]) ELSE <<>>
            IN  (EndsWith(line, "-") /\ following # <<>> /\ ~EndsWith(following, "-")) =>
                    /\ \E i \in DOMAIN paras : Contains(paras[i], stem \o following)
                    /\ (before # <<>> /\ before[Len(before)] \notin Terminators \cup {"-"}) =>
                           \E i \in DOMAIN paras :
                               Contains(paras[i], before \o <<" ">> \o stem)


\* C22: a declared document type other than pdf and docx, on a file that
\* exists, is a hard error: the extraction raises at once, no document parser
\* having been opened, and returns nothing.
C22_UnsupportedTypeFailsFast ==
    doc_type \notin {"pdf", "docx"} =>
        /\ parsers_called = <<>>
        /\ pdf_pc \in {"dispatch", "raised"}
        /\ pdf_pc = "raised" => extract_exc = <<"ValueError">>


\* the text of a run of lines with every space removed; a line that ends with
\* a hyphen gives its text without the hyphen
RECURSIVE LinesText(_)
LinesText(ls) ==
    IF ls = <<>> THEN <<>>
    ELSE LET line == Strip(Head(ls))
             own == IF EndsWith(line, "-") THEN Slice(line, 0, Len(line) - 1) ELSE line
         IN  SelectSeq(own, LAMBDA c : c # " ") \o LinesText(Tail(ls))

\* C27: the paragraphs of the PDF line reconstruction partition the non-blank
\* lines in order: the text of the paragraphs, one after the other, is the text
\* of the lines, one after the other (spaces aside), and each paragraph is the
\* text of the lines between the end of the paragraph before it and its own
\* end; a paragraph ends only at a line that ends with '.', '?' or '!', at a
\* blank line, or at the end of the input; no paragraph is empty or blank.
C27_ParagraphsPartitionLines ==
    (doc_type = "pdf" /\ pdf_pc = "returned") =>
        /\ Len(para_ends) = Len(paras)
        /\ \A i \in DOMAIN paras :
               LET from == IF i = 1 THEN 1 ELSE para_ends[i - 1] + 1
                   to == IF para_ends[i] > Len(lines) THEN Len(lines) ELSE para_ends[i]
                   last == IF para_ends[i] > Len(lines) THEN <<>> ELSE Strip(lines[to])
               IN  /\ from <= to
                   /\ LinesText(<<paras[i]>>) = LinesText(SubSeq(lines, from, to))
                   /\ \/ para_ends[i] = Len(lines) + 1
                      \/ last = <<>>
                      \/ last[Len(last)] \in Terminators
                   /\ Strip(paras[i]) # <<>>
        /\ LET done == IF paras = <<>> THEN 0
                       ELSE IF para_ends[Len(paras)] > Len(lines) THEN Len(lines)
                       ELSE para_ends[Len(paras)]
           IN  LinesText(SubSeq(lines, done + 1, Len(lines))) = <<>>

\* two paragraphs: one closed by a full stop after a hyphenated line, one
\* closed by the blank line at the end of the text
C27_Witness ==
    /\ doc_type = "pdf"
    /\ pdf_pc = "returned"
    /\ lines = << <<"a", "-">>, <<"b", ".">>, <<"a", " ", "b">>, <<>> >>
    /\ paras = << <<"a", " ", "b", ".">>, <<"a", " ", "b">> >>
    /\ para_ends = <<2, 4>>

-----------------------------------------------------------------------------
(***************************************************************************)
(* The keyword ranker: LLMClient.rank_keywords, LLMClient.py lines 45-58,  *)
(* and rank_keywords_llm, ver11_check_Main.py lines 278-317 and            *)
(* webUI/papers/pipeline.py lines 148-161.  They differ in the except      *)
(* clause only.                                                            *)
(***************************************************************************)
RankImpls == {"LLMClient.rank_keywords", "rank_keywords_llm"}

\* one entry of the answered list: a dict that has or lacks its two keys
RankEntries ==
    {[keyword |-> k, relevance |-> r] : k \in {Kw1, Kw2}, r \in {90, 40}}
        \cup {[keyword |-> Kw1]}

\* the answers to the ranking prompt
RankPayloads ==
    {JsonText(JsonObject([ranked_keywords |-> es])) :
        es \in SeqsUpTo(RankEntries, MaxKeywords)}
        \cup { JsonText(JsonObject([keywords |-> <<Kw1>>])),
               JsonText(JsonArray(<<Kw1>>)),
               Prose }

\* LLMClient.py lines 55-56: what the body of the try block raises (an
\* exception is written <<name>>), or None
RankTryRaises(parsed) ==
    IF ~parsed.ok THEN <<"JSONDecodeError">>
    ELSE IF ~HasGet(parsed.value) THEN <<"TypeError">>
    ELSE IF "ranked_keywords" \notin DOMAIN parsed.value.fields THEN <<"KeyError">>
    ELSE IF \E e \in Range(parsed.value.fields.ranked_keywords) :
                DOMAIN e # {"keyword", "relevance"} THEN <<"KeyError">>
    ELSE None

\* LLMClient.py line 56: [(kw["keyword"], kw["relevance"]) for kw in data["ranked_keywords"]]
RankedPairs(value) ==
    [i \in DOMAIN value.fields.ranked_keywords |->
        <<value.fields.ranked_keywords[i].keyword,
          value.fields.ranked_keywords[i].relevance>>]

\* LLMClient.py line 58: [(kw, None) for kw in keywords]
Unranked(kws) == [i \in DOMAIN kws |-> <<kws[i], None>>]

\* LLMClient.py line 57 (except:) against ver11_check_Main.py line 315 and
\* pipeline.py line 160 (except json.JSONDecodeError:)
RankCatches(impl, exc) ==
    IF impl = "LLMClient.rank_keywords" THEN TRUE ELSE exc = <<"JSONDecodeError">>

RankInit ==
    /\ rank_impl \in RankImpls
    /\ keywords \in SeqsUpTo({Kw1, Kw2}, MaxKeywords)
    /\ ranked = None
    /\ rank_exc = None
    /\ rank_pc = "call"
    /\ paragraphs = <<>> /\ get_summary = <<>> /\ retry_on_fail = <<>> /\ idx = <<>>
    /\ extract_pc = <<>> /\ keywords_per_paragraph = <<>>
    /\ summary_per_paragraph = <<>> /\ call_log = <<>> /\ heuristic_idx = <<>>
    /\ lines = <<>> /\ line_no = <<>> /\ buffer = <<>> /\ paras = <<>> /\ pdf_pc = <<>>
    /\ extract_impl = <<>> /\ doc_type = <<>> /\ parsers_called = <<>> /\ extract_exc = <<>>
    /\ para_ends = <<>>
    /\ paragraph_summary = <<>> /\ papers = <<>> /\ top_k = <<>> /\ top_papers = <<>> /\ sem_pc = <<>>
    /\ paper = <<>> /\ style = <<>> /\ now = <<>> /\ citation = <<>> /\ fmt_pc = <<>>
    /\ paper_given = <<>> /\ citation_log = <<>>
    /\ cleaned_paras = <<>> /\ web_idx = <<>> /\ web_keywords = <<>> /\ web_summaries = <<>>
    /\ results = <<>> /\ citations_saved = <<>> /\ llm_response = <<>> /\ raised = <<>>
    /\ page = <<>> /\ web_pc = <<>>
    /\ pipe_impl = <<>> /\ cleaned_paragraphs = <<>> /\ pipe_top_k = <<>> /\ extracted = <<>>
    /\ pipe_idx = <<>> /\ all_results = <<>> /\ search_counts = <<>> /\ citations = <<>>
    /\ save_pos = <<>> /\ processing = <<>> /\ error_message = <<>>
    /\ viewer_paragraphs = <<>> /\ pipe_pc = <<>>
    /\ caller = <<>> /\ upload_ext = <<>> /\ paper_exists = <<>> /\ file_exists = <<>>
    /\ status_answer = <<>> /\ step_log = <<>> /\ tasks_impl = <<>> /\ upload_answer = <<>>
    /\ ranked_keywords = <<>> /\ query_summary = <<>> /\ top_n = <<>> /\ query = <<>>
    /\ query_pc = <<>>
    /\ clean_impl = <<>> /\ clean_input = <<>> /\ min_words = <<>> /\ remove_short = <<>>
    /\ clean_idx = <<>> /\ segmented = <<>> /\ kept_sentences = <<>> /\ cleaned = <<>>
    /\ clean_pc = <<>>
    /\ request_query = <<>> /\ request_page = <<>> /\ fetched_total = <<>> /\ context = <<>>
    /\ index_pc = <<>>
    /\ page_impl = <<>> /\ session_query = <<>> /\ session_page = <<>> /\ results_total = <<>>
    /\ shown = <<>> /\ reruns = <<>>

\* LLMClient.py lines 52-58: the call, the parse and the return or the raise
RankKeywords ==
    /\ rank_pc = "call"
    /\ \E text \in ResponseTexts(RankPayloads) :
         LET parsed == JsonLoads(StripFence(text))
             exc == RankTryRaises(parsed)
         IN  /\ rank_exc' = exc
             /\ IF exc = None
                THEN ranked' = RankedPairs(parsed.value) /\ rank_pc' = "returned"
                ELSE IF RankCatches(rank_impl, exc)
                THEN ranked' = Unranked(keywords) /\ rank_pc' = "returned"
                ELSE ranked' = None /\ rank_pc' = "raised"
    /\ UNCHANGED <<rank_impl, keywords>>
    /\ UNCHANGED outsideRank

SpecRank == RankInit /\ [][RankKeywords]_vars

-----------------------------------------------------------------------------
(***************************************************************************)
(* Properties of the keyword ranker                                         *)
(***************************************************************************)
\* C4: the ranker never raises for any LLM response text, always returns a
\* list as long as the input keyword list, and returns the input keywords in
\* their order with null scores when the response does not have the expected
\* structure.
C4_RankNeverRaisesSameLength ==
    /\ rank_pc # "raised"
    /\ rank_pc = "returned" =>
          /\ Len(ranked) = Len(keywords)
          /\ rank_exc # None => ranked = Unranked(keywords)


\* C21: the list the ranker returns from a parsed answer is in descending order
\* of relevance: each keyword's score is at least the score of the keyword
\* after it, so that any first top_n entries are top_n most relevant ones.
C21_RankedDescending ==
    (rank_pc = "returned" /\ rank_exc = None) =>
        \A i, j \in DOMAIN ranked : i < j => ranked[i][2] >= ranked[j][2]

-----------------------------------------------------------------------------
(***************************************************************************)
(* SemanticRanker.rank, SemanticRanker.py lines 8-20 (the same function is *)
(* rank_papers_by_relevance of webUI/papers/pipeline.py lines 193-205).    *)
(*                                                                         *)
(* The embedding model is external: Encode gives each text a vector with   *)
(* integer coordinates and an integer norm.  A similarity is kept as a     *)
(* fixed-point number of SimScale units, a relevance in hundredths.        *)
(***************************************************************************)
\* self.model.encode: the vectors of the summaries and of the abstracts
Encode ==
    [ s0 |-> <<0, 1>>, s1 |-> <<1, 0>>, s2 |-> <<3, 4>>, s3 |-> <<5, 12>>,
      t1 |-> <<4, 3>>, t2 |-> <<3, 4>>, t3 |-> <<3, -4>>, t4 |-> <<-1, 0>> ]

SummaryTexts == {"s1", "s2", "s3"}

\* the papers a search may return: the abstract is the key 'summary'
PaperPool ==
    { [link |-> "p1", summary |-> "t1"], [link |-> "p2", summary |-> "t2"],
      [link |-> "p3", summary |-> "t3"], [link |-> "p4", summary |-> "t4"] }

SimScale == 1000000

Dot(u, v) == u[1] * v[1] + u[2] * v[2]

\* np.linalg.norm
Norm(v) == CHOOSE n \in 0..Dot(v, v) : n * n = Dot(v, v)

\* line 13: np.dot(para_emb, pe)/(np.linalg.norm(para_emb)*np.linalg.norm(pe))
CosSim(u, v) == (Dot(u, v) * SimScale) \div (Norm(u) * Norm(v))

\* round(x, 2) of x = n/d, in hundredths: to the nearest, ties to even
RoundDiv(n, d) ==
    LET q == n \div d
        r == n % d
    IN  IF 2 * r < d THEN q
        ELSE IF 2 * r > d THEN q + 1
        ELSE IF q % 2 = 0 THEN q ELSE q + 1

\* line 18: round(sim*100, 2), in hundredths
Relevance(sim) == RoundDiv(sim, SimScale \div (100 * 100))

\* the stable sort of line 14 with the order reversed: ascending
RECURSIVE SortAscending(_)
SortAscending(sims) ==
    IF sims = <<>> THEN <<>>
    ELSE LET rest == SortAscending(SubSeq(sims, 1, Len(sims) - 1))
             last == sims[Len(sims)]
             keep == Cardinality({i \in DOMAIN rest : rest[i].sim <= last.sim})
         IN  SubSeq(rest, 1, keep) \o <<last>> \o SubSeq(rest, keep + 1, Len(rest))

\* line 14: sims.sort(key=lambda x: x[1], reverse=True), a stable sort:
\* entries of equal similarity keep their order
RECURSIVE SortDescending(_)
SortDescending(sims) ==
    IF sims = <<>> THEN <<>>
    ELSE LET rest == SortDescending(SubSeq(sims, 1, Len(sims) - 1))
             last == sims[Len(sims)]
             keep == Cardinality({i \in DOMAIN rest : rest[i].sim >= last.sim})
         IN  SubSeq(rest, 1, keep) \o <<last>> \o SubSeq(rest, keep + 1, Len(rest))

\* lines 9-20: the ranked copies of the top_k most similar papers; i is the
\* 0-based position of the paper in the list passed in
Rank(summary, ps, k) ==
    IF ps = <<>> THEN <<>>
    ELSE LET para_emb == Encode[summary]
             sims == [i \in DOMAIN ps |->
                         [i |-> i - 1, sim |-> CosSim(para_emb, Encode[ps[i].summary])]]
             top == Slice(SortDescending(sims), 0, k)
         IN  [j \in DOMAIN top |->
                 [link |-> ps[top[j].i + 1].link,
                  summary |-> ps[top[j].i + 1].summary,
                  relevance |-> Relevance(top[j].sim)]]

SemInit ==
    /\ paragraph_summary \in SummaryTexts
    /\ papers \in SeqsUpTo(PaperPool, MaxPapers)
    /\ top_k \in 0..MaxTopK
    /\ top_papers = None
    /\ sem_pc = "call"
    /\ paragraphs = <<>> /\ get_summary = <<>> /\ retry_on_fail = <<>> /\ idx = <<>>
    /\ extract_pc = <<>> /\ keywords_per_paragraph = <<>>
    /\ summary_per_paragraph = <<>> /\ call_log = <<>> /\ heuristic_idx = <<>>
    /\ lines = <<>> /\ line_no = <<>> /\ buffer = <<>> /\ paras = <<>> /\ pdf_pc = <<>>
    /\ extract_impl = <<>> /\ doc_type = <<>> /\ parsers_called = <<>> /\ extract_exc = <<>>
    /\ para_ends = <<>>
    /\ rank_impl = <<>> /\ keywords = <<>> /\ ranked = <<>> /\ rank_exc = <<>> /\ rank_pc = <<>>
    /\ paper = <<>> /\ style = <<>> /\ now = <<>> /\ citation = <<>> /\ fmt_pc = <<>>
    /\ paper_given = <<>> /\ citation_log = <<>>
    /\ cleaned_paras = <<>> /\ web_idx = <<>> /\ web_keywords = <<>> /\ web_summaries = <<>>
    /\ results = <<>> /\ citations_saved = <<>> /\ llm_response = <<>> /\ raised = <<>>
    /\ page = <<>> /\ web_pc = <<>>
    /\ pipe_impl = <<>> /\ cleaned_paragraphs = <<>> /\ pipe_top_k = <<>> /\ extracted = <<>>
    /\ pipe_idx = <<>> /\ all_results = <<>> /\ search_counts = <<>> /\ citations = <<>>
    /\ save_pos = <<>> /\ processing = <<>> /\ error_message = <<>>
    /\ viewer_paragraphs = <<>> /\ pipe_pc = <<>>
    /\ caller = <<>> /\ upload_ext = <<>> /\ paper_exists = <<>> /\ file_exists = <<>>
    /\ status_answer = <<>> /\ step_log = <<>> /\ tasks_impl = <<>> /\ upload_answer = <<>>
    /\ ranked_keywords = <<>> /\ query_summary = <<>> /\ top_n = <<>> /\ query = <<>>
    /\ query_pc = <<>>
    /\ clean_impl = <<>> /\ clean_input = <<>> /\ min_words = <<>> /\ remove_short = <<>>
    /\ clean_idx = <<>> /\ segmented = <<>> /\ kept_sentences = <<>> /\ cleaned = <<>>
    /\ clean_pc = <<>>
    /\ request_query = <<>> /\ request_page = <<>> /\ fetched_total = <<>> /\ context = <<>>
    /\ index_pc = <<>>
    /\ page_impl = <<>> /\ session_query = <<>> /\ session_page = <<>> /\ results_total = <<>>
    /\ shown = <<>> /\ reruns = <<>>

\* lines 8-20
SemRank ==
    /\ sem_pc = "call"
    /\ top_papers' = Rank(paragraph_summary, papers, top_k)
    /\ sem_pc' = "returned"
    /\ UNCHANGED <<paragraph_summary, papers, top_k>>
    /\ UNCHANGED outsideSem

SpecSem == SemInit /\ [][SemRank]_vars

-----------------------------------------------------------------------------
(***************************************************************************)
(* Properties of the semantic ranker                                        *)
(***************************************************************************)
WithoutRelevance(p) == [link |-> p.link, summary |-> p.summary]

\* C8: rank returns at most top_k papers, each a copy of a distinct paper of
\* the input list, in non-increasing order of relevance, and nothing when the
\* input list is empty.
C8_RankTopKOfInputSorted ==
    sem_pc = "returned" =>
        /\ Len(top_papers) <= top_k
        /\ \E pos \in [DOMAIN top_papers -> DOMAIN papers] :
              /\ \A a, b \in DOMAIN top_papers : a # b => pos[a] # pos[b]
              /\ \A a \in DOMAIN top_papers :
                     WithoutRelevance(top_papers[a]) = papers[pos[a]]
        /\ \A a \in 1..(Len(top_papers) - 1) :
              top_papers[a].relevance >= top_papers[a + 1].relevance
        /\ papers = <<>> => top_papers = <<>>

\* more papers than top_k, of different similarities, ranked and cut
C8_Witness ==
    /\ sem_pc = "returned"
    /\ Len(papers) = 3
    /\ top_k = 2
    /\ Len(top_papers) = 2
    /\ top_papers[1].relevance > top_papers[2].relevance
    /\ top_papers[1].link # papers[1].link

\* C9: every relevance attached to a returned paper lies between 0 and 100
\* (in hundredths, between 0 and 10000).
C9_RelevanceBetween0And100 ==
    sem_pc = "returned" =>
        \A a \in DOMAIN top_papers :
            top_papers[a].relevance >= 0 /\ top_papers[a].relevance <= 100 * 100

-----------------------------------------------------------------------------
(***************************************************************************)
(* CitationFormatter, CitationFormatter.py lines 3-118.  A citation is a   *)
(* sequence of pieces: the characters of the names and of the title, and   *)
(* the literal text of the f-strings, one piece per literal.               *)
(***************************************************************************)
\* str.isalnum of one character
IsAlnum(c) ==
    c \in { "a", "b", "c", "d", "e", "f", "g", "h", "i", "j", "k", "l", "m",
            "n", "o", "p", "q", "r", "s", "t", "u", "v", "w", "x", "y", "z",
            "A", "B", "C", "D", "E", "F", "G", "H", "I", "J", "K", "L", "M",
            "N", "O", "P", "Q", "R", "S", "T", "U", "V", "W", "X", "Y", "Z",
            "0", "1", "2", "3", "4", "5", "6", "7", "8", "9" }

\* the author names of the model: two parts, three parts, one part
AuthorNames ==
    << <<"A", "b", " ", "C", "d">>,
       <<"E", " ", "F", "g", " ", "H">>,
       <<"K", "l">> >>

\* the author lists: n names taken in turn from AuthorNames, from the r-th on
AuthorList(n, r) == [i \in 1..n |-> AuthorNames[((i + r) % Len(AuthorNames)) + 1]]

LongTitle == [i \in 1..21 |-> IF i = 3 THEN " " ELSE "x"]

\* the paper dicts: full ones, and one that lacks every key
PaperDicts ==
    { [authors |-> AuthorList(n, r), year |-> y, title |-> t, link |-> <<"http://arxiv.org/abs/1">>] :
        n \in 0..MaxAuthors, r \in 0..2, y \in {<<"2", "0", "2", "1">>},
        t \in {<<"Q", "-", "b", " ", "7", "!">>, LongTitle} }
      \cup {EmptyDict}

\* paper.get(key, default)
PaperGet(p, key, default) == IF key \in DOMAIN p THEN p[key] ELSE default

\* datetime.now().strftime(fmt) for the two formats used
Strftime ==
    [ day1 |-> [dbY |-> <<"01 Jan 2025">>, BdY |-> <<"January 01, 2025">>],
      day2 |-> [dbY |-> <<"02 Jan 2025">>, BdY |-> <<"January 02, 2025">>] ]

LastName(a) == LET parts == SplitWords(a) IN parts[Len(parts)]
FirstInitial(a) == <<SplitWords(a)[1][1]>>

\* lines 77-93
FormatAuthors(authors_list) ==
    LET n == Len(authors_list)
        a1 == authors_list[1]
        a2 == authors_list[2]
        a3 == authors_list[3]
    IN  IF n = 0 THEN <<>>
        ELSE IF n = 1 THEN LastName(a1) \o <<",", " ">> \o FirstInitial(a1) \o <<".">>
        ELSE IF n = 2
        THEN LastName(a1) \o <<",", " ">> \o FirstInitial(a1) \o <<".", " ", "a", "n", "d", " ">>
                 \o LastName(a2) \o <<",", " ">> \o FirstInitial(a2) \o <<".">>
        ELSE IF n = 3
        THEN LastName(a1) \o <<",", " ">> \o FirstInitial(a1) \o <<".", ",", " ">>
                 \o LastName(a2) \o <<",", " ">> \o FirstInitial(a2) \o <<" ", "a", "n", "d", " ">>
                 \o LastName(a3) \o <<",", " ">> \o FirstInitial(a3) \o <<".">>
        ELSE LastName(a1) \o <<",", " ">> \o FirstInitial(a1)
                 \o <<".", " ", "e", "t", " ", "a", "l", ".">>

ApaListed == 7

\* the APA author string without the et al. entry
FormatAuthorsApaAllListed(authors_list) ==
    IF authors_list = <<>> THEN <<>>
    ELSE LET listed == Slice(authors_list, 0, ApaListed)
             one(a) == LET parts == SplitWords(a)
                           given == SubSeq(parts, 1, Len(parts) - 1)
                       IN  parts[Len(parts)] \o <<",", " ">>
                               \o Join(<<" ">>, [i \in DOMAIN given |-> <<given[i][1], ".">>])
         IN  Join(<<",", " ", "&", " ">>, [i \in DOMAIN listed |-> one(listed[i])])

\* lines 95-106
FormatAuthorsApa(authors_list) ==
    IF authors_list = <<>> THEN <<>>
    ELSE LET listed == Slice(authors_list, 0, ApaListed)
             one(a) == LET parts == SplitWords(a)
                           given == SubSeq(parts, 1, Len(parts) - 1)
                       IN  parts[Len(parts)] \o <<",", " ">>
                               \o Join(<<" ">>, [i \in DOMAIN given |-> <<given[i][1], ".">>])
             formatted == [i \in DOMAIN listed |-> one(listed[i])]
         IN  Join(<<",", " ", "&", " ">>,
                  IF Len(authors_list) > ApaListed
                  THEN Append(formatted, <<"e", "t", " ", "a", "l", ".">>)
                  ELSE formatted)

\* lines 108-117
FormatAuthorsMla(authors_list) ==
    IF authors_list = <<>> THEN <<>>
    ELSE LET one(a) == LET parts == SplitWords(a)
                       IN  parts[Len(parts)] \o <<",", " ">>
                               \o Join(<<" ">>, SubSeq(parts, 1, Len(parts) - 1))
         IN  Join(<<",", " ">>, [i \in DOMAIN authors_list |-> one(authors_list[i])])

NoYear == <<"n", ".", "d", ".">>
NoTitle == <<"N", "o", " ", "t", "i", "t", "l", "e">>

\* lines 5-13
Harvard(p, day) ==
    FormatAuthors(PaperGet(p, "authors", <<>>)) \o <<" (">> \o PaperGet(p, "year", NoYear)
        \o <<") '">> \o PaperGet(p, "title", NoTitle) \o <<"', arXiv. Available at: ">>
        \o PaperGet(p, "link", <<>>) \o <<" (Accessed: ">> \o Strftime[day].dbY \o <<").">>

\* lines 15-22
Apa(p, day) ==
    FormatAuthorsApa(PaperGet(p, "authors", <<>>)) \o <<" (">> \o PaperGet(p, "year", NoYear)
        \o <<"). ">> \o PaperGet(p, "title", NoTitle) \o <<". arXiv. ">>
        \o PaperGet(p, "link", <<>>)

\* lines 24-32
Mla(p, day) ==
    FormatAuthorsMla(PaperGet(p, "authors", <<>>)) \o <<". \"">> \o PaperGet(p, "title", NoTitle)
        \o <<".\" arXiv, ">> \o PaperGet(p, "year", NoYear) \o <<". Web. Accessed ">>
        \o Strftime[day].dbY \o <<". ">> \o PaperGet(p, "link", <<>>) \o <<".">>

\* lines 34-42
Chicago(p, day) ==
    FormatAuthors(PaperGet(p, "authors", <<>>)) \o <<". \"">> \o PaperGet(p, "title", NoTitle)
        \o <<".\" arXiv, ">> \o PaperGet(p, "year", NoYear) \o <<". Accessed ">>
        \o Strftime[day].BdY \o <<". ">> \o PaperGet(p, "link", <<>>) \o <<".">>

\* lines 44-52, with number at its default 1
Ieee(p, day) ==
    LET authors_list == PaperGet(p, "authors", <<>>)
        one(a) == LastName(a) \o <<" ">> \o FirstInitial(a) \o <<".">>
    IN  <<"[", "1", "] ">>
            \o Join(<<",", " ">>, [i \in DOMAIN authors_list |-> one(authors_list[i])])
            \o <<", \"">> \o PaperGet(p, "title", NoTitle) \o <<",\" arXiv, ">>
            \o PaperGet(p, "year", NoYear) \o <<". ">> \o PaperGet(p, "link", <<>>)

BibtexKeyLen == 20

\* lines 54-62
Bibtex(p, day) ==
    LET year == PaperGet(p, "year", NoYear)
        title == PaperGet(p, "title", NoTitle)
        citation_key == Slice(SelectSeq(title, IsAlnum), 0, BibtexKeyLen) \o year
    IN  <<"@misc{">> \o citation_key \o <<",\n  author = {">>
            \o Join(<<" and ">>, PaperGet(p, "authors", <<>>))
            \o <<"},\n  title = {">> \o title \o <<"},\n  year = {">> \o year
            \o <<"},\n  howpublished = {arXiv},\n  note = {Available at: ">>
            \o PaperGet(p, "link", <<>>) \o <<"}\n}">>

\* getattr(CitationFormatter, style)(paper)
StyleMethod(st, p, day) ==
    CASE st = "harvard" -> Harvard(p, day)
      [] st = "apa"     -> Apa(p, day)
      [] st = "mla"     -> Mla(p, day)
      [] st = "chicago" -> Chicago(p, day)
      [] st = "ieee"    -> Ieee(p, day)
      [] st = "bibtex"  -> Bibtex(p, day)

\* line 73: the styles format dispatches on
DispatchedStyles == {"harvard", "apa", "mla", "chicago", "bibtex"}

\* the style values a caller may pass
StyleValues == {"harvard", "apa", "mla", "chicago", "ieee", "bibtex", "vancouver", "HARVARD"}

\* lines 67-75
Format(p, st, day) ==
    IF st \in DispatchedStyles THEN StyleMethod(st, p, day) ELSE Harvard(p, day)

FmtInit ==
    /\ paper \in PaperDicts
    /\ style \in StyleValues
    /\ now \in DOMAIN Strftime
    /\ citation = None
    /\ fmt_pc = "call"
    /\ paper_given = paper
    /\ citation_log = <<>>
    /\ paragraphs = <<>> /\ get_summary = <<>> /\ retry_on_fail = <<>> /\ idx = <<>>
    /\ extract_pc = <<>> /\ keywords_per_paragraph = <<>>
    /\ summary_per_paragraph = <<>> /\ call_log = <<>> /\ heuristic_idx = <<>>
    /\ lines = <<>> /\ line_no = <<>> /\ buffer = <<>> /\ paras = <<>> /\ pdf_pc = <<>>
    /\ extract_impl = <<>> /\ doc_type = <<>> /\ parsers_called = <<>> /\ extract_exc = <<>>
    /\ para_ends = <<>>
    /\ rank_impl = <<>> /\ keywords = <<>> /\ ranked = <<>> /\ rank_exc = <<>> /\ rank_pc = <<>>
    /\ paragraph_summary = <<>> /\ papers = <<>> /\ top_k = <<>> /\ top_papers = <<>> /\ sem_pc = <<>>
    /\ cleaned_paras = <<>> /\ web_idx = <<>> /\ web_keywords = <<>> /\ web_summaries = <<>>
    /\ results = <<>> /\ citations_saved = <<>> /\ llm_response = <<>> /\ raised = <<>>
    /\ page = <<>> /\ web_pc = <<>>
    /\ pipe_impl = <<>> /\ cleaned_paragraphs = <<>> /\ pipe_top_k = <<>> /\ extracted = <<>>
    /\ pipe_idx = <<>> /\ all_results = <<>> /\ search_counts = <<>> /\ citations = <<>>
    /\ save_pos = <<>> /\ processing = <<>> /\ error_message = <<>>
    /\ viewer_paragraphs = <<>> /\ pipe_pc = <<>>
    /\ caller = <<>> /\ upload_ext = <<>> /\ paper_exists = <<>> /\ file_exists = <<>>
    /\ status_answer = <<>> /\ step_log = <<>> /\ tasks_impl = <<>> /\ upload_answer = <<>>
    /\ ranked_keywords = <<>> /\ query_summary = <<>> /\ top_n = <<>> /\ query = <<>>
    /\ query_pc = <<>>
    /\ clean_impl = <<>> /\ clean_input = <<>> /\ min_words = <<>> /\ remove_short = <<>>
    /\ clean_idx = <<>> /\ segmented = <<>> /\ kept_sentences = <<>> /\ cleaned = <<>>
    /\ clean_pc = <<>>
    /\ request_query = <<>> /\ request_page = <<>> /\ fetched_total = <<>> /\ context = <<>>
    /\ index_pc = <<>>
    /\ page_impl = <<>> /\ session_query = <<>> /\ session_page = <<>> /\ results_total = <<>>
    /\ shown = <<>> /\ reruns = <<>>

\* a formatter that cuts the author list of the paper in place
FmtFormatCutsAuthors ==
    /\ fmt_pc = "call"
    /\ citation' = Format(paper, style, now)
    /\ citation_log' = Append(citation_log, [style |-> style, text |-> citation'])
    /\ paper' = IF "authors" \in DOMAIN paper
                THEN [paper EXCEPT !.authors = Slice(paper.authors, 0, ApaListed)]
                ELSE paper
    /\ fmt_pc' = "returned"
    /\ UNCHANGED <<style, now, paper_given>>
    /\ UNCHANGED outsideFmt

\* lines 67-75: one call of CitationFormatter.format; no method assigns to the
\* paper or to its author list
FmtFormat ==
    /\ fmt_pc = "call"
    /\ citation' = Format(paper, style, now)
    /\ citation_log' = Append(citation_log, [style |-> style, text |-> citation'])
    /\ fmt_pc' = "returned"
    /\ UNCHANGED <<paper, style, now, paper_given>>
    /\ UNCHANGED outsideFmt

\* the caller asks for the same paper again, in the same or in another style,
\* on the same day
FmtAgain ==
    /\ fmt_pc = "returned"
    /\ Len(citation_log) < MaxCalls
    /\ style' \in StyleValues
    /\ citation' = None
    /\ fmt_pc' = "call"
    /\ UNCHANGED <<paper, now, paper_given, citation_log>>
    /\ UNCHANGED outsideFmt

FmtNext ==
    \/ FmtFormat
    \/ FmtAgain

SpecFmt == FmtInit /\ [][FmtNext]_vars

-----------------------------------------------------------------------------
(***************************************************************************)
(* Properties of the citation formatter                                     *)
(***************************************************************************)
\* C10: format returns the citation of the requested style for each of the six
\* styles harvard, apa, mla, chicago, ieee and bibtex, and the Harvard citation
\* for every other style value.
C10_FormatReturnsRequestedStyle ==
    fmt_pc = "returned" =>
        citation = CASE style = "harvard" -> Harvard(paper, now)
                     [] style = "apa"     -> Apa(paper, now)
                     [] style = "mla"     -> Mla(paper, now)
                     [] style = "chicago" -> Chicago(paper, now)
                     [] style = "ieee"    -> Ieee(paper, now)
                     [] style = "bibtex"  -> Bibtex(paper, now)
                     [] OTHER             -> Harvard(paper, now)

\* the authors of the paper passed in
AuthorsOf(p) == IF "authors" \in DOMAIN p THEN p.authors ELSE <<>>

\* 'Last, F.' for one author name
LastCommaInitial(a) ==
    LET parts == SplitWords(a)
    IN  parts[Len(parts)] \o <<",", " ", parts[1][1], ".">>

\* the author string the Harvard and Chicago styles are to show
HarvardAuthorString(authors_list) ==
    LET n == Len(authors_list)
        and == <<" ", "a", "n", "d", " ">>
    IN  CASE n = 0 -> <<>>
          [] n = 1 -> LastCommaInitial(authors_list[1])
          [] n = 2 -> LastCommaInitial(authors_list[1]) \o and
                          \o LastCommaInitial(authors_list[2])
          [] n = 3 -> LastCommaInitial(authors_list[1]) \o <<",", " ">>
                          \o LastCommaInitial(authors_list[2]) \o and
                          \o LastCommaInitial(authors_list[3])
          [] OTHER -> LastCommaInitial(authors_list[1])
                          \o <<" ", "e", "t", " ", "a", "l", ".">>

\* the citation starts with the author string, and the literal text of the
\* style follows it
StartsWithAuthors(cit, authors_str, literal) ==
    /\ Len(cit) > Len(authors_str)
    /\ SubSeq(cit, 1, Len(authors_str)) = authors_str
    /\ cit[Len(authors_str) + 1] = literal

\* C11: the author string of a Harvard or Chicago citation is empty for no
\* authors, 'Last, F.' for one, 'Last1, F1. and Last2, F2.' for two,
\* 'Last1, F1., Last2, F2. and Last3, F3.' for three (a period after every
\* initial, no comma before 'and') and 'Last1, F1. et al.' for four or more.
C11_HarvardChicagoAuthorString ==
    fmt_pc = "returned" =>
        /\ style = "harvard" =>
               StartsWithAuthors(citation, HarvardAuthorString(AuthorsOf(paper)), " (")
        /\ style = "chicago" =>
               StartsWithAuthors(citation, HarvardAuthorString(AuthorsOf(paper)), ". \"")

\* 'Last, F. M.' for one author name: the last name, then the initials of the
\* name parts before it
RECURSIVE Initials(_)
Initials(given) ==
    IF given = <<>> THEN <<>>
    ELSE IF Len(given) = 1 THEN <<given[1][1], ".">>
    ELSE <<given[1][1], ".", " ">> \o Initials(Tail(given))

\* the author string the APA style is to show: the first min(n, 7) authors
\* joined by ', & ', and 'et al.' as one more entry when n > 7
RECURSIVE ApaJoined(_, _, _)
ApaJoined(authors_list, i, n) ==
    LET parts == SplitWords(authors_list[i])
        name == parts[Len(parts)] \o <<",", " ">> \o Initials(SubSeq(parts, 1, Len(parts) - 1))
        amp == <<",", " ", "&", " ">>
    IN  IF i > n \/ i > 7 THEN <<>>
        ELSE IF i = n THEN name
        ELSE IF i = 7 THEN name \o amp \o <<"e", "t", " ", "a", "l", ".">>
        ELSE name \o amp \o ApaJoined(authors_list, i + 1, n)

\* C12: the APA author string lists the first min(n, 7) of the n authors, each
\* as 'Last, F. M.', joined by ', & '; 'et al.' is appended exactly when n > 7;
\* the string is empty for no authors.
C12_ApaAuthorString ==
    (fmt_pc = "returned" /\ style = "apa") =>
        StartsWithAuthors(citation,
                          ApaJoined(AuthorsOf(paper), 1, Len(AuthorsOf(paper))), " (")

C12_Witness ==
    /\ fmt_pc = "returned"
    /\ style = "apa"
    /\ Len(AuthorsOf(paper)) = 8
    /\ Len(SplitWords(AuthorsOf(paper)[1])) = 3
    /\ Contains(citation, <<".", ",", " ", "&", " ", "e", "t", " ", "a", "l", ".", " (">>)


-----------------------------------------------------------------------------
(***************************************************************************)
(* The upload request of the web UI: upload_view (views.py lines 8-54)     *)
(* calls process_paper (tasks.py lines 4-22), which calls pipeline_run     *)
(* (pipeline.py lines 236-258); every LLM call goes through call_llm       *)
(* (pipeline.py lines 89-116).  An exception is written <<type, message>>, *)
(* the message character by character.                                     *)
(***************************************************************************)
\* str.lower()
Lower(s) ==
    LET upper == <<"A", "B", "C", "D", "E", "F", "G", "H", "I", "J", "K", "L", "M",
                   "N", "O", "P", "Q", "R", "S", "T", "U", "V", "W", "X", "Y", "Z">>
        lower == <<"a", "b", "c", "d", "e", "f", "g", "h", "i", "j", "k", "l", "m",
                   "n", "o", "p", "q", "r", "s", "t", "u", "v", "w", "x", "y", "z">>
    IN  [i \in DOMAIN s |->
            IF \E k \in DOMAIN upper : upper[k] = s[i]
            THEN lower[CHOOSE k \in DOMAIN upper : upper[k] = s[i]]
            ELSE s[i]]

\* pipeline.py lines 103, 106, 113: "Token max reached"
TokenMaxReached ==
    << "T", "o", "k", "e", "n", " ", "m", "a", "x", " ", "r", "e", "a", "c",
       "h", "e", "d" >>

\* pipeline.py line 108: "LLM API error: "
LlmApiError ==
    << "L", "L", "M", " ", "A", "P", "I", " ", "e", "r", "r", "o", "r", ":",
       " " >>

\* views.py line 39
TokenLimitMessage ==
    << "T", "o", "k", "e", "n", " ", "l", "i", "m", "i", "t", " ", "r", "e",
       "a", "c", "h", "e", "d", ".", " ", "P", "l", "e", "a", "s", "e", " ",
       "t", "r", "y", " ", "a", "g", "a", "i", "n", " ", "l", "a", "t", "e",
       "r", "." >>

\* views.py lines 22-25
NoCitationsMessage ==
    << "N", "o", " ", "c", "i", "t", "a", "t", "i", "o", "n", "s", " ", "c",
       "o", "u", "l", "d", " ", "b", "e", " ", "g", "e", "n", "e", "r", "a",
       "t", "e", "d", " ", "f", "o", "r", " ", "t", "h", "i", "s", " ", "p",
       "a", "p", "e", "r", ".", " ", "P", "l", "e", "a", "s", "e", " ", "t",
       "r", "y", " ", "a", " ", "d", "i", "f", "f", "e", "r", "e", "n", "t",
       " ", "f", "i", "l", "e", " ", "o", "r", " ", "r", "e", "v", "i", "e",
       "w", " ", "y", "o", "u", "r", " ", "c", "o", "n", "t", "e", "n", "t",
       "." >>

\* the messages of the exceptions Python and the libraries raise
ErrorText ==
    [ KeyChoices   |-> << "'", "c", "h", "o", "i", "c", "e", "s", "'" >>,
      DictLower    |-> << "'", "d", "i", "c", "t", "'", " ", "o", "b", "j",
                         "e", "c", "t", " ", "h", "a", "s", " ", "n", "o",
                         " ", "a", "t", "t", "r", "i", "b", "u", "t", "e",
                         " ", "'", "l", "o", "w", "e", "r", "'" >>,
      JsonBody     |-> << "E", "x", "p", "e", "c", "t", "i", "n", "g", " ",
                         "v", "a", "l", "u", "e", ":", " ", "l", "i", "n",
                         "e", " ", "1", " ", "c", "o", "l", "u", "m", "n",
                         " ", "1", " ", "(", "c", "h", "a", "r", " ", "0",
                         ")" >>,
      ListGet      |-> << "'", "l", "i", "s", "t", "'", " ", "o", "b", "j",
                         "e", "c", "t", " ", "h", "a", "s", " ", "n", "o",
                         " ", "a", "t", "t", "r", "i", "b", "u", "t", "e",
                         " ", "'", "g", "e", "t", "'" >>,
      NoneGet      |-> << "'", "N", "o", "n", "e", "T", "y", "p", "e", "'",
                         " ", "o", "b", "j", "e", "c", "t", " ", "h", "a",
                         "s", " ", "n", "o", " ", "a", "t", "t", "r", "i",
                         "b", "u", "t", "e", " ", "'", "g", "e", "t", "'" >>,
      KeyRanked    |-> << "'", "r", "a", "n", "k", "e", "d", "_", "k", "e",
                         "y", "w", "o", "r", "d", "s", "'" >>,
      KeyKeyword   |-> << "'", "k", "e", "y", "w", "o", "r", "d", "'" >>,
      KeyRelevance |-> << "'", "r", "e", "l", "e", "v", "a", "n", "c", "e",
                         "'" >>,
      ListIndex    |-> << "l", "i", "s", "t", " ", "i", "n", "d", "i", "c",
                         "e", "s", " ", "m", "u", "s", "t", " ", "b", "e",
                         " ", "i", "n", "t", "e", "g", "e", "r", "s", " ",
                         "o", "r", " ", "s", "l", "i", "c", "e", "s", ",",
                         " ", "n", "o", "t", " ", "s", "t", "r" >>,
      Concat       |-> << "c", "a", "n", " ", "o", "n", "l", "y", " ", "c",
                         "o", "n", "c", "a", "t", "e", "n", "a", "t", "e",
                         " ", "s", "t", "r", " ", "(", "n", "o", "t", " ",
                         "\"", "N", "o", "n", "e", "T", "y", "p", "e", "\"",
                         ")", " ", "t", "o", " ", "s", "t", "r" >>,
      \* raise_for_status: the url is one piece, it holds no white space
      SearchStatus |-> << "5", "0", "3", " ", "S", "e", "r", "v", "e", "r",
                         " ", "E", "r", "r", "o", "r", ":", " ", "S", "e",
                         "r", "v", "i", "c", "e", " ", "U", "n", "a", "v",
                         "a", "i", "l", "a", "b", "l", "e", " ", "f", "o",
                         "r", " ", "u", "r", "l", ":", " " >> \o <<"url">> ]

\* the bodies of the non-200 answers, and the texts of an error field
BodyTexts == {<<"N", "o", " ", "T", "o", "k", "e", "n", "s">>, <<"b", "u", "s", "y">>}

\* what the endpoint may answer to one request: status, body text, whether
\* the body is JSON, its error field, whether it has choices, and the content
HttpResponse(status, text, json_ok, error, has_choices, content) ==
    [status |-> status, text |-> text, json_ok |-> json_ok, error |-> error,
     has_choices |-> has_choices, content |-> content]

NoError == [kind |-> "absent", text |-> <<>>]

HttpResponses(contents) ==
    {HttpResponse(st, t, FALSE, NoError, FALSE, <<>>) : st \in {401, 500}, t \in BodyTexts}
      \cup {HttpResponse(200, <<>>, FALSE, NoError, FALSE, <<>>)}
      \cup {HttpResponse(200, <<>>, TRUE, [kind |-> "text", text |-> t], FALSE, <<>>) :
                t \in BodyTexts}
      \cup {HttpResponse(200, <<>>, TRUE, [kind |-> "object", text |-> <<>>], FALSE, <<>>)}
      \cup {HttpResponse(200, <<>>, TRUE, NoError, FALSE, <<>>)}
      \cup {HttpResponse(200, <<>>, TRUE, e, TRUE, c) :
                e \in {NoError} \cup {[kind |-> "text", text |-> t] : t \in BodyTexts},
                c \in contents}

\* pipeline.py lines 89-116: the exception call_llm raises, or the text it returns
CallLlm(response) ==
    LET token == <<"t", "o", "k", "e", "n">>
        raise(type, msg) == [exc |-> <<type, msg>>, text |-> <<>>]
    IN  IF response.status = 401 THEN raise("Exception", TokenMaxReached)
        ELSE IF response.status # 200
        THEN IF Contains(Lower(response.text), token)
             THEN raise("Exception", TokenMaxReached)
             ELSE raise("Exception", LlmApiError \o response.text)
        ELSE IF ~response.json_ok THEN raise("JSONDecodeError", ErrorText.JsonBody)
        ELSE IF response.error.kind = "object"
        THEN raise("AttributeError", ErrorText.DictLower)
        ELSE IF response.error.kind = "text" /\ Contains(Lower(response.error.text), token)
        THEN raise("Exception", TokenMaxReached)
        ELSE IF ~response.has_choices THEN raise("KeyError", ErrorText.KeyChoices)
        ELSE [exc |-> None, text |-> response.content]

\* pipeline.py lines 134-143: the keywords and the summary stored for a
\* paragraph, or the exception the except clause does not catch
ExtractParse(llm_text) ==
    LET parsed == JsonLoads(StripFence(llm_text))
    IN  IF ~parsed.ok THEN [exc |-> None, keywords |-> <<>>, summary |-> <<>>]
        ELSE IF ~HasGet(parsed.value)
        THEN [exc |-> <<"AttributeError", ErrorText.ListGet>>, keywords |-> <<>>,
              summary |-> <<>>]
        ELSE [exc |-> None, keywords |-> DictGet(parsed.value, "keywords", <<>>),
              summary |-> DictGet(parsed.value, "summary", None)]

\* pipeline.py lines 157-161: the exception the except clause does not catch, or None
RankParse(llm_text) ==
    LET parsed == JsonLoads(StripFence(llm_text))
        entries == parsed.value.fields.ranked_keywords
    IN  IF ~parsed.ok THEN None
        ELSE IF ~HasGet(parsed.value) THEN <<"TypeError", ErrorText.ListIndex>>
        ELSE IF "ranked_keywords" \notin DOMAIN parsed.value.fields
        THEN <<"KeyError", ErrorText.KeyRanked>>
        ELSE IF \E i \in DOMAIN entries : "keyword" \notin DOMAIN entries[i]
        THEN <<"KeyError", ErrorText.KeyKeyword>>
        ELSE IF \E i \in DOMAIN entries : "relevance" \notin DOMAIN entries[i]
        THEN <<"KeyError", ErrorText.KeyRelevance>>
        ELSE None

\* the answers to the two prompts the web UI sends
WebExtractContents ==
    { <<JsonText(JsonObject([keywords |-> <<Kw1, Kw2>>, summary |-> Sum1]))>>,
      <<Fence, JsonText(JsonObject([keywords |-> <<Kw2>>])), Fence>>,
      <<JsonText(JsonArray(<<Kw1>>))>>,
      <<Prose>> }
WebRankContents ==
    { <<JsonText(JsonObject([ranked_keywords |-> <<[keyword |-> Kw1, relevance |-> 90]>>]))>>,
      <<JsonText(JsonObject([ranked_keywords |-> <<[keyword |-> Kw1]>>]))>>,
      <<JsonText(JsonObject([keywords |-> <<Kw1>>]))>>,
      <<Fence, JsonText(JsonArray(<<Kw1>>)), Fence>>,
      <<Prose>> }

\* pipeline.py line 193: top_k=3
TopKDefault == 3

\* tasks.py lines 4-22: process_paper has no return statement
ProcessPaperResult == None

\* views.py lines 14-28: the try block of upload_view after process_paper returned
UploadViewTry(result, saved) ==
    IF result = None
    THEN [exc |-> <<"AttributeError", ErrorText.NoneGet>>, page |-> None]
    ELSE IF saved = 0
    THEN [exc |-> None, page |-> <<"error", NoCitationsMessage>>]
    ELSE [exc |-> None, page |-> <<"redirect", <<"viewer">>>>]

\* a test of the message that does not lower it first
MentionsTokenMaxAsWritten(message) ==
    Contains(message, <<"t", "o", "k", "e", "n", " ", "m", "a", "x">>)

\* views.py line 35: "token max" in str(e).lower()
MentionsTokenMax(message) ==
    Contains(Lower(message), <<"t", "o", "k", "e", "n", " ", "m", "a", "x">>)

NoResponse == HttpResponse(0, <<>>, FALSE, NoError, FALSE, <<>>)

WebInit ==
    /\ cleaned_paras \in {[i \in 1..n |-> i] : n \in 0..MaxParas}
    /\ web_idx = 0
    /\ web_keywords = EmptyDict
    /\ web_summaries = EmptyDict
    /\ results = <<>>
    /\ citations_saved = 0
    /\ llm_response = NoResponse
    /\ raised = None
    /\ page = None
    /\ web_pc = "pipeline_run"
    /\ paragraphs = <<>> /\ get_summary = <<>> /\ retry_on_fail = <<>> /\ idx = <<>>
    /\ extract_pc = <<>> /\ keywords_per_paragraph = <<>>
    /\ summary_per_paragraph = <<>> /\ call_log = <<>> /\ heuristic_idx = <<>>
    /\ lines = <<>> /\ line_no = <<>> /\ buffer = <<>> /\ paras = <<>> /\ pdf_pc = <<>>
    /\ extract_impl = <<>> /\ doc_type = <<>> /\ parsers_called = <<>> /\ extract_exc = <<>>
    /\ para_ends = <<>>
    /\ rank_impl = <<>> /\ keywords = <<>> /\ ranked = <<>> /\ rank_exc = <<>> /\ rank_pc = <<>>
    /\ paragraph_summary = <<>> /\ papers = <<>> /\ top_k = <<>> /\ top_papers = <<>> /\ sem_pc = <<>>
    /\ paper = <<>> /\ style = <<>> /\ now = <<>> /\ citation = <<>> /\ fmt_pc = <<>>
    /\ paper_given = <<>> /\ citation_log = <<>>
    /\ pipe_impl = <<>> /\ cleaned_paragraphs = <<>> /\ pipe_top_k = <<>> /\ extracted = <<>>
    /\ pipe_idx = <<>> /\ all_results = <<>> /\ search_counts = <<>> /\ citations = <<>>
    /\ save_pos = <<>> /\ processing = <<>> /\ error_message = <<>>
    /\ viewer_paragraphs = <<>> /\ pipe_pc = <<>>
    /\ caller = <<>> /\ upload_ext = <<>> /\ paper_exists = <<>> /\ file_exists = <<>>
    /\ status_answer = <<>> /\ step_log = <<>> /\ tasks_impl = <<>> /\ upload_answer = <<>>
    /\ ranked_keywords = <<>> /\ query_summary = <<>> /\ top_n = <<>> /\ query = <<>>
    /\ query_pc = <<>>
    /\ clean_impl = <<>> /\ clean_input = <<>> /\ min_words = <<>> /\ remove_short = <<>>
    /\ clean_idx = <<>> /\ segmented = <<>> /\ kept_sentences = <<>> /\ cleaned = <<>>
    /\ clean_pc = <<>>
    /\ request_query = <<>> /\ request_page = <<>> /\ fetched_total = <<>> /\ context = <<>>
    /\ index_pc = <<>>
    /\ page_impl = <<>> /\ session_query = <<>> /\ session_page = <<>> /\ results_total = <<>>
    /\ shown = <<>> /\ reruns = <<>>

\* pipeline_run has returned: process_paper saves the results and returns,
\* and upload_view goes on in its try block (tasks.py lines 9-19, views.py 14-28)
WebReturned(res) ==
    LET after == UploadViewTry(ProcessPaperResult, Len(res))
    IN  /\ citations_saved' = Len(res)
        /\ raised' = after.exc
        /\ page' = after.page
        /\ web_pc' = IF after.exc # None THEN "except" ELSE "done"

\* pipeline.py lines 236-240: para_processing and the test for no paragraphs
WebPipelineStart ==
    /\ web_pc = "pipeline_run"
    /\ IF cleaned_paras = <<>>
       THEN WebReturned(<<>>)
       ELSE web_pc' = "extract" /\ UNCHANGED <<citations_saved, raised, page>>
    /\ UNCHANGED <<cleaned_paras, web_idx, web_keywords, web_summaries, results, llm_response>>
    /\ UNCHANGED outsideWeb

\* pipeline.py lines 121-143: one round of the loop of extract_keywords_and_summary
WebExtract ==
    /\ web_pc = "extract"
    /\ \E response \in HttpResponses(WebExtractContents) :
         LET called == CallLlm(response)
             stored == ExtractParse(called.text)
             exc == IF called.exc # None THEN called.exc ELSE stored.exc
         IN  /\ llm_response' = response
             /\ IF exc # None
                THEN /\ raised' = exc
                     /\ web_pc' = "except"
                     /\ UNCHANGED <<web_idx, web_keywords, web_summaries>>
                ELSE /\ web_keywords' = web_keywords @@ (web_idx :> stored.keywords)
                     /\ web_summaries' = web_summaries @@ (web_idx :> stored.summary)
                     /\ IF web_idx + 1 < Len(cleaned_paras)
                        THEN web_idx' = web_idx + 1 /\ web_pc' = "extract"
                        ELSE web_idx' = 0 /\ web_pc' = "rank"
                     /\ UNCHANGED raised
    /\ UNCHANGED <<cleaned_paras, results, citations_saved, page>>
    /\ UNCHANGED outsideWeb

\* pipeline.py lines 241-257: one round of the loop of pipeline_run, and the
\* return to process_paper and upload_view after the last round
WebRankAndSearch ==
    /\ web_pc = "rank"
    /\ \E response \in HttpResponses(WebRankContents),
          found \in {[ok |-> FALSE, n |-> 0]} \cup {[ok |-> TRUE, n |-> k] : k \in 0..MaxPapers} :
         LET called == CallLlm(response)
             exc == IF called.exc # None THEN called.exc
                    ELSE IF RankParse(called.text) # None THEN RankParse(called.text)
                    ELSE IF web_summaries[web_idx] = None
                    THEN <<"TypeError", ErrorText.Concat>>
                    ELSE IF ~found.ok
                    THEN <<"HTTPError", ErrorText.SearchStatus>>
                    ELSE None
             top == IF found.n > TopKDefault THEN TopKDefault ELSE found.n
             res == results \o [j \in 1..top |-> web_idx]
         IN  /\ llm_response' = response
             /\ IF exc # None
                THEN /\ raised' = exc
                     /\ web_pc' = "except"
                     /\ UNCHANGED <<web_idx, results, citations_saved, page>>
                ELSE /\ results' = res
                     /\ IF web_idx + 1 < Len(cleaned_paras)
                        THEN /\ web_idx' = web_idx + 1
                             /\ web_pc' = "rank"
                             /\ UNCHANGED <<citations_saved, raised, page>>
                        ELSE /\ WebReturned(res)
                             /\ UNCHANGED web_idx
    /\ UNCHANGED <<cleaned_paras, web_keywords, web_summaries>>
    /\ UNCHANGED outsideWeb

\* tasks.py lines 20-22 and views.py lines 30-46: the exception passes
\* process_paper and upload_view renders the error page
WebExcept ==
    /\ web_pc = "except"
    /\ page' = IF MentionsTokenMax(raised[2])
               THEN <<"error", TokenLimitMessage>>
               ELSE <<"error", raised[2]>>
    /\ web_pc' = "done"
    /\ UNCHANGED <<cleaned_paras, web_idx, web_keywords, web_summaries, results,
                   citations_saved, llm_response, raised>>
    /\ UNCHANGED outsideWeb

WebNext == WebPipelineStart \/ WebExtract \/ WebRankAndSearch \/ WebExcept

SpecWeb == WebInit /\ [][WebNext]_vars

-----------------------------------------------------------------------------
(***************************************************************************)
(* Properties of the upload request                                         *)
(***************************************************************************)
\* the answers the claim counts as capacity or auth failures: HTTP 401, a
\* non-200 status whose body mentions token, a 200 body whose error field
\* mentions token
TokenFailure(response) ==
    LET mentions(t) == \E i \in 0..(Len(t) - 5) :
                           /\ t[i + 1] \in {"t", "T"} /\ t[i + 2] \in {"o", "O"}
                           /\ t[i + 3] \in {"k", "K"} /\ t[i + 4] \in {"e", "E"}
                           /\ t[i + 5] \in {"n", "N"}
    IN  \/ response.status = 401
        \/ response.status \notin {0, 200, 401} /\ mentions(response.text)
        \/ /\ response.status = 200 /\ response.json_ok
           /\ response.error.kind = "text" /\ mentions(response.error.text)

\* C3: when the endpoint answers with a capacity or auth failure, call_llm
\* raises "Token max reached", no layer between call_llm and upload_view
\* absorbs it (no further step of the pipeline runs and the exception reaches
\* upload_view unchanged), and upload_view answers with the token-limit
\* message; that message is not the no-citations message and is shown for no
\* other failure.
C3_TokenLimitDistinguishable ==
    /\ TokenLimitMessage # NoCitationsMessage
    /\ TokenFailure(llm_response) =>
           /\ web_pc \in {"except", "done"}
           /\ raised = <<"Exception", TokenMaxReached>>
    /\ web_pc = "done" =>
           /\ page[1] = "error"
           /\ (page[2] = TokenLimitMessage) <=> TokenFailure(llm_response)

C3_Witness ==
    /\ web_pc = "done"
    /\ llm_response.status = 200
    /\ TokenFailure(llm_response)
    /\ web_idx = 1
    /\ results # <<>>
    /\ page = <<"error", TokenLimitMessage>>

\* C28: once process_paper has returned with citations saved for the paper,
\* upload_view answers with the redirect to the viewer page; the error page is
\* rendered only when no citation was saved, which covers every failure of
\* the processing.
C28_RedirectWhenCitationsSaved ==
    web_pc = "done" =>
        /\ citations_saved > 0 => page = <<"redirect", <<"viewer">>>>
        /\ page[1] = "error" => citations_saved = 0

-----------------------------------------------------------------------------
(***************************************************************************)
(* The pipeline, and what the web application does with its result:        *)
(* PaperPipeline.run (ver1 Runner.py lines 47-88) and pipeline_run (ver5   *)
(* papers/pipeline.py lines 28-74), process_paper (ver10 papers/tasks.py   *)
(* lines 5-85), the function pipeline (ver11_check_Main.py lines 483-525), *)
(* and of ver10 papers/views.py process_paper_async (lines 15-39),         *)
(* dashboard_view (41-80), viewer_view (107-179) and                       *)
(* check_processing_status (216-245).                                      *)
(* Only pipeline_run is called by process_paper.  A paper of a result is   *)
(* written by its link and its relevance; title, authors, year and the     *)
(* citation text are further fields of the same paper.                     *)
(***************************************************************************)
PipeImpls == {"PaperPipeline.run", "pipeline_run", "pipeline"}

\* the cleaned paragraphs of a document: all different, or all the same text
CleanedLists ==
    {[i \in 1..n |-> <<"para", i>>] : n \in 0..MaxParas}
        \cup {[i \in 1..n |-> <<"para", 1>>] : n \in 2..MaxParas}

\* LLMClient.py lines 34-42: what extract_keywords_and_summary stores for one
\* paragraph: a full answer, an answer that is not JSON (no keywords, the
\* empty summary s0), an answer without the key summary (None)
ExtractedValues ==
    { [keywords |-> <<Kw1>>, has_summary |-> TRUE, summary |-> "s1"],
      [keywords |-> <<>>, has_summary |-> TRUE, summary |-> "s0"],
      [keywords |-> <<Kw1>>, has_summary |-> FALSE, summary |-> "s0"] }

\* what a search may return: the papers of the feed, in the order of the feed
SearchResults ==
    LET feed == << [link |-> "p4", summary |-> "t4"], [link |-> "p1", summary |-> "t1"],
                   [link |-> "p3", summary |-> "t3"], [link |-> "p2", summary |-> "t2"] >>
    IN  {[i \in 1..n |-> feed[((i - 1) % Len(feed)) + 1]] : n \in 0..MaxPapers}

ErrorMessages ==
    [ ApiLimit    |-> <<"The LLM request could not be completed because the API limit has been reached.">>,
      NoResults   |-> <<"No citations were generated. The document may not contain suitable content for citation extraction.">>,
      NoResults9  |-> <<"No citations were generated. Possibly the LLM API limit has been reached.">>,
      NoneSaved   |-> <<"No citations could be saved to database">>,
      NotADict    |-> <<"'list' object has no attribute 'get'">>,
      Concat      |-> <<"can only concatenate str (not \"NoneType\") to str">>,
      Search      |-> <<"503 Server Error: Service Unavailable for url">>,
      Parse       |-> <<"not well-formed (invalid token): line 1, column 0">>,
      Subscript   |-> <<"'NoneType' object is not subscriptable">>,
      Unsupported |-> <<"Unsupported file type: ", "txt">>,
      NotFound    |-> <<"Paper not found">>,
      Unexpected  |-> <<"Processing failed unexpectedly">> ]

\* a citation stored by an earlier run of process_paper on the same paper
StaleCitation == [paragraph_number |-> 1, paragraph_text |-> <<"para", 0>>, link |-> "p0"]

\* views.py line 60, tasks.py line 33: the document types taken
SupportedTypes == {"pdf", "docx"}

\* The pipeline is started in one of three ways.  PaperPipeline.run and the
\* function pipeline are called with a document.  process_paper of ver10 is
\* called by the thread dashboard_view starts for a file just uploaded;
\* process_paper of ver9 or of ver10 is called directly on a row that exists
\* and has a citation of an earlier run.
PipeInit ==
    /\ pipe_impl \in PipeImpls
    /\ cleaned_paragraphs \in CleanedLists
    /\ pipe_top_k \in 0..MaxTopK
    /\ extracted = EmptyDict
    /\ pipe_idx = 0
    /\ all_results = <<>>
    /\ search_counts = <<>>
    /\ save_pos = 0
    /\ processing = FALSE
    /\ error_message = None
    /\ viewer_paragraphs = <<>>
    /\ status_answer = [status |-> "none", error |-> None]
    /\ step_log = <<>>
    /\ upload_answer = None
    /\ \/ /\ pipe_impl = "pipeline_run"
          /\ tasks_impl = "ver10"
          /\ caller = "dashboard_view"
          /\ upload_ext \in {"pdf", "txt"}
          /\ paper_exists = FALSE /\ file_exists = FALSE
          /\ citations = <<>>
          /\ pipe_pc = "upload"
       \/ /\ pipe_impl = "pipeline_run"
          /\ tasks_impl \in {"ver9", "ver10"}
          /\ caller = "direct"
          /\ upload_ext \in IF tasks_impl = "ver9" THEN {"docx"} ELSE {"docx", "txt"}
          /\ paper_exists = TRUE /\ file_exists = TRUE
          /\ citations = <<StaleCitation>>
          /\ pipe_pc = "start"
       \/ /\ pipe_impl # "pipeline_run"
          /\ tasks_impl = "none"
          /\ caller = "direct"
          /\ upload_ext = "pdf"
          /\ paper_exists = FALSE /\ file_exists = TRUE
          /\ citations = <<>>
          /\ pipe_pc = "extract"
    /\ paragraphs = <<>> /\ get_summary = <<>> /\ retry_on_fail = <<>> /\ idx = <<>>
    /\ extract_pc = <<>> /\ keywords_per_paragraph = <<>>
    /\ summary_per_paragraph = <<>> /\ call_log = <<>> /\ heuristic_idx = <<>>
    /\ lines = <<>> /\ line_no = <<>> /\ buffer = <<>> /\ paras = <<>> /\ pdf_pc = <<>>
    /\ extract_impl = <<>> /\ doc_type = <<>> /\ parsers_called = <<>> /\ extract_exc = <<>>
    /\ para_ends = <<>>
    /\ rank_impl = <<>> /\ keywords = <<>> /\ ranked = <<>> /\ rank_exc = <<>> /\ rank_pc = <<>>
    /\ paragraph_summary = <<>> /\ papers = <<>> /\ top_k = <<>> /\ top_papers = <<>> /\ sem_pc = <<>>
    /\ paper = <<>> /\ style = <<>> /\ now = <<>> /\ citation = <<>> /\ fmt_pc = <<>>
    /\ paper_given = <<>> /\ citation_log = <<>>
    /\ cleaned_paras = <<>> /\ web_idx = <<>> /\ web_keywords = <<>> /\ web_summaries = <<>>
    /\ results = <<>> /\ citations_saved = <<>> /\ llm_response = <<>> /\ raised = <<>>
    /\ page = <<>> /\ web_pc = <<>>
    /\ ranked_keywords = <<>> /\ query_summary = <<>> /\ top_n = <<>> /\ query = <<>>
    /\ query_pc = <<>>
    /\ clean_impl = <<>> /\ clean_input = <<>> /\ min_words = <<>> /\ remove_short = <<>>
    /\ clean_idx = <<>> /\ segmented = <<>> /\ kept_sentences = <<>> /\ cleaned = <<>>
    /\ clean_pc = <<>>
    /\ request_query = <<>> /\ request_page = <<>> /\ fetched_total = <<>> /\ context = <<>>
    /\ index_pc = <<>>
    /\ page_impl = <<>> /\ session_query = <<>> /\ session_page = <<>> /\ results_total = <<>>
    /\ shown = <<>> /\ reruns = <<>>

\* a handler that stores the message and leaves processing as it is
PipeRaiseKeepsProcessing(message) ==
    IF pipe_impl = "pipeline_run"
    THEN /\ error_message' = message
         /\ pipe_pc' = IF tasks_impl = "ver9" THEN "caught" ELSE "failed"
         /\ UNCHANGED processing
    ELSE /\ pipe_pc' = "raised"
         /\ UNCHANGED <<processing, error_message>>

\* an exception leaves the pipeline: PaperPipeline.run and pipeline have no
\* caller here; process_paper records it, and ver10's raises it again (ver10
\* tasks.py lines 80-85) while ver9's returns (ver9 tasks.py lines 61-64)
PipeRaise(message) ==
    IF pipe_impl = "pipeline_run"
    THEN /\ processing' = FALSE
         /\ error_message' = message
         /\ pipe_pc' = IF tasks_impl = "ver9" THEN "caught" ELSE "failed"
    ELSE /\ pipe_pc' = "raised"
         /\ UNCHANGED <<processing, error_message>>

\* an entry that is left out when it has no papers
AppendResultWithPapers(results_list, entry) ==
    IF entry.papers = <<>> THEN results_list ELSE Append(results_list, entry)

\* Runner.py line 86, pipeline.py line 74: all_results.append(para_results)
AppendResult(results_list, entry) == Append(results_list, entry)

\* a paragraph number counted from zero
EnumerateIdxFromZero(pos) == pos

\* tasks.py line 56: enumerate(all_results, start=1), pos the 0-based position
EnumerateIdx(pos) == pos + 1

\* a test for stored citations that never finds none
NoCitationsCreatedIgnored(created) == FALSE

\* tasks.py line 73: citations_created == 0
NoCitationsCreated(created) == created = <<>>

\* step_log entries of paragraph i, one for each step named
Steps(i, names) == [k \in DOMAIN names |-> [idx |-> i, step |-> names[k]]]

\* an upload view that saves the row with processing set and starts no thread
DashboardViewNoThread ==
    /\ pipe_pc = "upload"
    /\ IF upload_ext \notin SupportedTypes
       THEN /\ upload_answer' = <<"redirect", "dashboard",
                                  "Only PDF and DOCX files are supported.">>
            /\ pipe_pc' = "rejected"
            /\ UNCHANGED <<paper_exists, file_exists, processing>>
       ELSE /\ paper_exists' = TRUE
            /\ file_exists' = TRUE
            /\ processing' = TRUE
            /\ upload_answer' = <<"redirect", "loading_page">>
            /\ pipe_pc' = "saved"
    /\ UNCHANGED <<pipe_impl, tasks_impl, cleaned_paragraphs, pipe_top_k, extracted, pipe_idx,
                   all_results, search_counts, citations, save_pos, error_message,
                   viewer_paragraphs, caller, upload_ext, status_answer, step_log>>
    /\ UNCHANGED outsidePipe

\* views.py lines 53-75: the upload is refused, or the row is saved with
\* processing set and the thread started
DashboardView ==
    /\ pipe_pc = "upload"
    /\ IF upload_ext \notin SupportedTypes
       THEN /\ upload_answer' = <<"redirect", "dashboard",
                                  "Only PDF and DOCX files are supported.">>
            /\ pipe_pc' = "rejected"
            /\ UNCHANGED <<paper_exists, file_exists, processing>>
       ELSE /\ paper_exists' = TRUE
            /\ file_exists' = TRUE
            /\ processing' = TRUE
            /\ upload_answer' = <<"redirect", "loading_page">>
            /\ pipe_pc' = "start"
    /\ UNCHANGED <<pipe_impl, tasks_impl, cleaned_paragraphs, pipe_top_k, extracted, pipe_idx,
                   all_results, search_counts, citations, save_pos, error_message,
                   viewer_paragraphs, caller, upload_ext, status_answer, step_log>>
    /\ UNCHANGED outsidePipe

\* tasks.py lines 9-34: the row fetched and marked, the file name validated;
\* ver9 tasks.py lines 11-21 validate nothing
ProcessPaperStart ==
    /\ pipe_pc = "start"
    /\ IF ~paper_exists
       THEN /\ pipe_pc' = "failed"
            /\ UNCHANGED <<processing, error_message>>
       ELSE IF tasks_impl = "ver10" /\ upload_ext \notin SupportedTypes
       THEN PipeRaise(<<"Unsupported file type: ", upload_ext>>)
       ELSE /\ processing' = TRUE
            /\ error_message' = None
            /\ pipe_pc' = "extract"
    /\ UNCHANGED <<pipe_impl, tasks_impl, upload_answer, cleaned_paragraphs, pipe_top_k, extracted, pipe_idx,
                   all_results, search_counts, citations, save_pos, viewer_paragraphs,
                   caller, upload_ext, paper_exists, file_exists, status_answer,
                   step_log>>
    /\ UNCHANGED outsidePipe

\* Runner.py lines 48-55, pipeline.py lines 28-47, ver11_check_Main.py lines
\* 496-501: no paragraphs, or the LLM extraction of all paragraphs
PipeExtract ==
    /\ pipe_pc = "extract"
    /\ IF cleaned_paragraphs = <<>>
       THEN /\ pipe_pc' = "returned"
            /\ UNCHANGED <<extracted, processing, error_message, step_log>>
       ELSE \/ /\ PipeRaise(ErrorMessages.NotADict)
               /\ UNCHANGED <<extracted, step_log>>
            \/ \E values \in [0..(Len(cleaned_paragraphs) - 1) -> ExtractedValues] :
                 IF /\ pipe_impl = "pipeline_run"
                    /\ \A i \in DOMAIN values : values[i].keywords = <<>>
                 THEN /\ PipeRaise(ErrorMessages.ApiLimit)
                      /\ UNCHANGED <<extracted, step_log>>
                 ELSE IF /\ pipe_impl = "pipeline"
                         /\ \E i \in DOMAIN values : ~values[i].has_summary
                 THEN \* ver11_check_Main.py line 271: summary_per_paragraph[idx][:60]
                      /\ PipeRaise(ErrorMessages.Subscript)
                      /\ UNCHANGED <<extracted, step_log>>
                 ELSE /\ extracted' = values
                      /\ step_log' = [i \in 1..Len(cleaned_paragraphs) |->
                                         [idx |-> i - 1, step |-> "extraction"]]
                      /\ pipe_pc' = "loop"
                      /\ UNCHANGED <<processing, error_message>>
    /\ UNCHANGED <<pipe_impl, tasks_impl, upload_answer, cleaned_paragraphs, pipe_top_k, pipe_idx, all_results,
                   search_counts, citations, save_pos, viewer_paragraphs, caller,
                   upload_ext, paper_exists, file_exists, status_answer>>
    /\ UNCHANGED outsidePipe

\* Runner.py lines 57-86, pipeline.py lines 55-74, ver11_check_Main.py lines
\* 503-523: one round of the loop.  The function pipeline passes a paragraph
\* without keywords over, ranks with the default top_k and keeps no result list.
PipeParagraph ==
    /\ pipe_pc = "loop"
    /\ LET para == cleaned_paragraphs[pipe_idx + 1]
           ex == extracted[pipe_idx]
           after == IF pipe_idx + 1 < Len(cleaned_paragraphs) THEN "loop" ELSE "returned"
       IN  IF pipe_impl = "pipeline" /\ ex.keywords = <<>>
           THEN /\ pipe_idx' = pipe_idx + 1
                /\ pipe_pc' = after
                /\ UNCHANGED <<all_results, search_counts, processing, error_message,
                               step_log>>
           ELSE IF ~ex.has_summary
           THEN /\ PipeRaise(ErrorMessages.Concat)
                /\ step_log' = step_log \o Steps(pipe_idx, <<"ranking", "query">>)
                /\ UNCHANGED <<pipe_idx, all_results, search_counts>>
           ELSE \/ /\ \E message \in {ErrorMessages.Search, ErrorMessages.Parse} :
                          PipeRaise(message)
                   /\ step_log' = step_log \o
                          Steps(pipe_idx, <<"ranking", "query", "search">>)
                   /\ UNCHANGED <<pipe_idx, all_results, search_counts>>
                \/ \E found \in SearchResults :
                     LET k == IF pipe_impl = "pipeline" THEN TopKDefault ELSE pipe_top_k
                         top_ranked == Rank(ex.summary, found, k)
                         entry == [paragraph |-> para,
                                   papers |-> [j \in DOMAIN top_ranked |->
                                                  [link |-> top_ranked[j].link,
                                                   relevance |-> top_ranked[j].relevance]]]
                     IN  /\ all_results' = IF pipe_impl = "pipeline" THEN all_results
                                           ELSE AppendResult(all_results, entry)
                         /\ search_counts' = Append(search_counts, Len(found))
                         /\ step_log' = step_log \o
                                Steps(pipe_idx, <<"ranking", "query", "search", "semantic">>
                                          \o [j \in DOMAIN top_ranked |-> "formatting"])
                         /\ pipe_idx' = pipe_idx + 1
                         /\ pipe_pc' = after
                         /\ UNCHANGED <<processing, error_message>>
    /\ UNCHANGED <<pipe_impl, tasks_impl, upload_answer, cleaned_paragraphs, pipe_top_k, extracted, citations,
                   save_pos, viewer_paragraphs, caller, upload_ext, paper_exists,
                   file_exists, status_answer>>
    /\ UNCHANGED outsidePipe

\* tasks.py lines 44-54, ver9 tasks.py lines 31-37: the test for an empty
\* result, the old citations deleted
ProcessPaperCheck ==
    /\ pipe_pc = "returned"
    /\ pipe_impl = "pipeline_run"
    /\ IF all_results = <<>>
       THEN /\ PipeRaise(IF tasks_impl = "ver9" THEN ErrorMessages.NoResults9
                         ELSE ErrorMessages.NoResults)
            /\ UNCHANGED citations
       ELSE /\ citations' = <<>>
            /\ pipe_pc' = "save"
            /\ UNCHANGED <<processing, error_message>>
    /\ UNCHANGED <<pipe_impl, tasks_impl, upload_answer, cleaned_paragraphs, pipe_top_k, extracted, pipe_idx,
                   all_results, search_counts, save_pos, viewer_paragraphs, caller,
                   upload_ext, paper_exists, file_exists, status_answer, step_log>>
    /\ UNCHANGED outsidePipe

\* tasks.py lines 56-71, ver9 tasks.py lines 41-55: one round of the outer loop
ProcessPaperSave ==
    /\ pipe_pc = "save"
    /\ save_pos < Len(all_results)
    /\ LET para_result == all_results[save_pos + 1]
       IN  citations' = citations \o
               [j \in DOMAIN para_result.papers |->
                   [paragraph_number |-> EnumerateIdx(save_pos),
                    paragraph_text |-> para_result.paragraph,
                    link |-> para_result.papers[j].link]]
    /\ save_pos' = save_pos + 1
    /\ UNCHANGED <<pipe_impl, tasks_impl, upload_answer, cleaned_paragraphs, pipe_top_k, extracted, pipe_idx,
                   all_results, search_counts, processing, error_message,
                   viewer_paragraphs, pipe_pc, caller, upload_ext, paper_exists,
                   file_exists, status_answer, step_log>>
    /\ UNCHANGED outsidePipe

\* tasks.py lines 73-78: after the loop; ver9 tasks.py lines 57-59 do not test
\* how many citations were stored
ProcessPaperFinish ==
    /\ pipe_pc = "save"
    /\ save_pos = Len(all_results)
    /\ IF tasks_impl = "ver10" /\ NoCitationsCreated(citations)
       THEN PipeRaise(ErrorMessages.NoneSaved)
       ELSE /\ processing' = FALSE
            /\ error_message' = None
            /\ pipe_pc' = "done"
    /\ UNCHANGED <<pipe_impl, tasks_impl, upload_answer, cleaned_paragraphs, pipe_top_k, extracted, pipe_idx,
                   all_results, search_counts, citations, save_pos, viewer_paragraphs,
                   caller, upload_ext, paper_exists, file_exists, status_answer,
                   step_log>>
    /\ UNCHANGED outsidePipe

\* a wrapper whose except clause cleans nothing up
ProcessPaperAsyncExceptKeeps ==
    /\ pipe_pc = "failed"
    /\ caller = "dashboard_view"
    /\ pipe_pc' = "deleted"
    /\ UNCHANGED <<pipe_impl, tasks_impl, upload_answer, cleaned_paragraphs, pipe_top_k, extracted, pipe_idx,
                   all_results, search_counts, citations, save_pos, processing,
                   error_message, viewer_paragraphs, caller, upload_ext, paper_exists,
                   file_exists, status_answer, step_log>>
    /\ UNCHANGED outsidePipe

\* views.py lines 22-35: process_paper raised in the thread of
\* process_paper_async: the file is removed and the row deleted, its
\* citations with it (models.py line 10, on_delete=CASCADE)
ProcessPaperAsyncExcept ==
    /\ pipe_pc = "failed"
    /\ caller = "dashboard_view"
    /\ file_exists' = FALSE
    /\ paper_exists' = FALSE
    /\ citations' = <<>>
    /\ pipe_pc' = "deleted"
    /\ UNCHANGED <<pipe_impl, tasks_impl, upload_answer, cleaned_paragraphs, pipe_top_k, extracted, pipe_idx,
                   all_results, search_counts, save_pos, processing, error_message,
                   viewer_paragraphs, caller, upload_ext, status_answer, step_log>>
    /\ UNCHANGED outsidePipe

\* views.py lines 218-245: the answer to a status poll
ProcessingStatus ==
    IF ~paper_exists
    THEN [status |-> "error", error |-> ErrorMessages.NotFound]
    ELSE IF error_message # None
    THEN [status |-> "error", error |-> error_message]
    ELSE IF citations # <<>>
    THEN [status |-> "complete", error |-> None]
    ELSE IF processing
    THEN [status |-> "processing", error |-> None]
    ELSE [status |-> "error", error |-> ErrorMessages.Unexpected]

\* views.py lines 216-245: a poll of the loading page, at any time after the
\* upload
CheckProcessingStatus ==
    /\ pipe_impl = "pipeline_run"
    /\ pipe_pc \notin {"upload", "rejected"}
    /\ status_answer' = ProcessingStatus
    /\ UNCHANGED <<pipe_impl, tasks_impl, upload_answer, cleaned_paragraphs, pipe_top_k, extracted, pipe_idx,
                   all_results, search_counts, citations, save_pos, processing,
                   error_message, viewer_paragraphs, pipe_pc, caller, upload_ext,
                   paper_exists, file_exists, step_log>>
    /\ UNCHANGED outsidePipe

\* views.py lines 114, 165-179: citations ordered by paragraph_number and grouped;
\* each paragraph of the list with its number, its text and its count
ViewerParagraphs(rows) ==
    LET numbers == {rows[i].paragraph_number : i \in DOMAIN rows}
        \* sorted(paragraphs_dict.keys())
        sorted_keys == CHOOSE ks \in [1..Cardinality(numbers) -> numbers] :
                           \A a, b \in DOMAIN ks : a < b => ks[a] < ks[b]
        group(n) == SelectSeq(rows, LAMBDA c : c.paragraph_number = n)
    IN  [k \in DOMAIN sorted_keys |->
            [number |-> sorted_keys[k],
             text |-> group(sorted_keys[k])[1].paragraph_text,
             count |-> Len(group(sorted_keys[k]))]]

\* views.py lines 107-179: the viewer page of the paper, once processing is over
ViewerView ==
    /\ pipe_pc \in {"done", "failed", "caught"}
    /\ paper_exists
    /\ viewer_paragraphs = <<>>
    /\ viewer_paragraphs' = ViewerParagraphs(citations)
    /\ UNCHANGED <<pipe_impl, tasks_impl, upload_answer, cleaned_paragraphs, pipe_top_k, extracted, pipe_idx,
                   all_results, search_counts, citations, save_pos, processing,
                   error_message, pipe_pc, caller, upload_ext, paper_exists,
                   file_exists, status_answer, step_log>>
    /\ UNCHANGED outsidePipe

PipeNext ==
    \/ DashboardView
    \/ ProcessPaperStart
    \/ PipeExtract
    \/ PipeParagraph
    \/ ProcessPaperCheck
    \/ ProcessPaperSave
    \/ ProcessPaperFinish
    \/ ProcessPaperAsyncExcept
    \/ CheckProcessingStatus
    \/ ViewerView

SpecPipe == PipeInit /\ [][PipeNext]_vars

-----------------------------------------------------------------------------
(***************************************************************************)
(* Properties of the pipeline result                                        *)
(***************************************************************************)
\* C6: paragraph order is kept from the document to the viewer: the i-th entry
\* of the result holds the i-th cleaned paragraph; every citation process_paper
\* stores carries the 1-based position of its entry as paragraph_number, with
\* that paragraph's text and one of that entry's papers; and viewer_view lists
\* the paragraphs in strictly ascending paragraph_number, each with the text
\* the document has at that position.
C6_ParagraphOrderPreserved ==
    /\ \A i \in DOMAIN all_results : all_results[i].paragraph = cleaned_paragraphs[i]
    /\ pipe_pc \in {"save", "done"} =>
           \A c \in DOMAIN citations :
               LET n == citations[c].paragraph_number
               IN  /\ n \in 1..save_pos
                   /\ citations[c].paragraph_text = cleaned_paragraphs[n]
                   /\ \E j \in DOMAIN all_results[n].papers :
                          all_results[n].papers[j].link = citations[c].link
                   /\ \A d \in DOMAIN citations :
                          c < d => n <= citations[d].paragraph_number
    /\ (pipe_pc = "done" /\ viewer_paragraphs # <<>>) =>
           /\ \A a, b \in DOMAIN viewer_paragraphs :
                  a < b => viewer_paragraphs[a].number < viewer_paragraphs[b].number
           /\ \A a \in DOMAIN viewer_paragraphs :
                  LET n == viewer_paragraphs[a].number
                  IN  /\ n \in DOMAIN cleaned_paragraphs
                      /\ viewer_paragraphs[a].text = cleaned_paragraphs[n]
                      /\ viewer_paragraphs[a].count = Len(all_results[n].papers)
           /\ \A n \in DOMAIN all_results :
                  all_results[n].papers # <<>> =>
                      \E a \in DOMAIN viewer_paragraphs : viewer_paragraphs[a].number = n

C6_Witness ==
    /\ pipe_pc = "done"
    /\ Len(viewer_paragraphs) = 2
    /\ viewer_paragraphs[1].text # viewer_paragraphs[2].text
    /\ viewer_paragraphs[1].count # viewer_paragraphs[2].count

\* C7: when the pipeline (PaperPipeline.run or pipeline_run; the function
\* pipeline keeps no result) returns, its result has exactly one entry per cleaned
\* paragraph, the i-th entry carrying the text of the i-th paragraph and exactly
\* min(top_k, number of papers its search returned) papers; a paragraph whose
\* search returned nothing has its entry, with no papers.
C7_OneEntryPerParagraph ==
    (pipe_impl # "pipeline" /\ pipe_pc \in {"returned", "save", "done"}) =>
        /\ Len(all_results) = Len(cleaned_paragraphs)
        /\ Len(search_counts) = Len(cleaned_paragraphs)
        /\ \A i \in DOMAIN cleaned_paragraphs :
               /\ all_results[i].paragraph = cleaned_paragraphs[i]
               /\ Len(all_results[i].papers) =
                      IF pipe_top_k < search_counts[i] THEN pipe_top_k ELSE search_counts[i]

C7_Witness ==
    /\ pipe_pc = "returned"
    /\ Len(all_results) = 2
    /\ search_counts[1] = 0 /\ all_results[1].papers = <<>>
    /\ search_counts[2] > pipe_top_k /\ pipe_top_k > 0
    /\ Len(all_results[2].papers) = pipe_top_k


\* the steps of process_paper, from the fetch of the row to its return or raise
ProcessPaperStep ==
    \/ ProcessPaperStart
    \/ PipeExtract
    \/ PipeParagraph
    \/ ProcessPaperCheck
    \/ ProcessPaperSave
    \/ ProcessPaperFinish

\* C16: process_paper, once it has found the row, ends in one of two ways only:
\* it returns with processing False, error_message None and at least one
\* citation stored, or it raises with processing False and the failure text in
\* error_message.  Anywhere else it has a next step, so it never returns with
\* no citation stored and never ends with processing True.
C16_ProcessPaperEndsTwoWays ==
    tasks_impl = "ver10" =>
        /\ pipe_pc = "done" =>
               /\ ~processing
               /\ error_message = None
               /\ citations # <<>>
        /\ pipe_pc = "failed" =>
               /\ ~processing
               /\ error_message # None
               /\ error_message # <<>>
        /\ pipe_pc \in {"start", "extract", "loop", "returned", "save"} =>
               ENABLED ProcessPaperStep

\* the pipeline returned an entry for each of two paragraphs, none with a
\* paper: process_paper stored nothing and raised
C16_Witness ==
    /\ pipe_impl = "pipeline_run"
    /\ pipe_pc = "failed"
    /\ Len(all_results) = 2
    /\ save_pos = 2
    /\ citations = <<>>
    /\ ~processing
    /\ error_message = ErrorMessages.NoneSaved


\* C17: when the pipeline has finished without producing a citation,
\* process_paper reports it with the text 'No citations were generated...', and
\* the upload is kept: once process_paper and the wrapper of the background
\* thread are through, the UploadedPaper row and its file still exist.
C17_NoCitationsKeepsUpload ==
    ( /\ pipe_impl = "pipeline_run"
      /\ pipe_pc \in {"failed", "deleted"}
      /\ upload_ext \in SupportedTypes
      /\ Len(all_results) = Len(cleaned_paragraphs)
      /\ \A i \in DOMAIN all_results : all_results[i].papers = <<>> ) =>
        /\ error_message = ErrorMessages.NoResults
        /\ paper_exists
        /\ file_exists

\* C18: when process_paper has raised in the thread of process_paper_async, the
\* wrapper's next step removes the file and deletes the row, whatever the
\* failure was; from then on neither exists, and a status poll answers 'Paper
\* not found' and not the error message process_paper had stored.  No poll
\* answers 'Paper not found' before that.
C18_WrapperDeletesOnRaise ==
    /\ (caller = "dashboard_view" /\ pipe_pc = "failed") =>
           /\ paper_exists /\ file_exists
           /\ ENABLED ProcessPaperAsyncExcept
    /\ pipe_pc = "deleted" =>
           /\ caller = "dashboard_view"
           /\ ~paper_exists /\ ~file_exists
           /\ error_message # None
           /\ ProcessingStatus = [status |-> "error", error |-> ErrorMessages.NotFound]
           /\ ProcessingStatus.error # error_message
    /\ status_answer.error = ErrorMessages.NotFound => pipe_pc = "deleted"

\* a search failed with a server error, the wrapper cleaned up, and the poll
\* after that found no paper
C18_Witness ==
    /\ pipe_pc = "deleted"
    /\ error_message = ErrorMessages.Search
    /\ pipe_idx = 1
    /\ ~paper_exists /\ ~file_exists
    /\ status_answer = [status |-> "error", error |-> ErrorMessages.NotFound]

\* C19: in a run that returns, every paragraph has exactly one keyword ranking
\* call and exactly one search call; and in every run the steps of one
\* paragraph come in the order extraction, ranking, query building, search,
\* semantic ranking, formatting (once for each paper kept), none of them
\* after a later one.
C19_OneRankOneSearchInOrder ==
    LET StepsOf(i) == SelectSeq(step_log, LAMBDA e : e.idx = i)
        Count(i, name) == Len(SelectSeq(step_log, LAMBDA e : e.idx = i /\ e.step = name))
        Place(name) == CASE name = "extraction" -> 1
                         [] name = "ranking" -> 2
                         [] name = "query" -> 3
                         [] name = "search" -> 4
                         [] name = "semantic" -> 5
                         [] name = "formatting" -> 6
    IN  /\ \A i \in 0..(Len(cleaned_paragraphs) - 1) :
               LET mine == StepsOf(i)
               IN  \A a, b \in DOMAIN mine :
                       a < b =>
                           \/ Place(mine[a].step) < Place(mine[b].step)
                           \/ mine[a].step = "formatting" /\ mine[b].step = "formatting"
        /\ pipe_pc \in {"returned", "save", "done"} =>
               \A i \in 0..(Len(cleaned_paragraphs) - 1) :
                   /\ Count(i, "extraction") = 1
                   /\ Count(i, "ranking") = 1
                   /\ Count(i, "search") = 1

-----------------------------------------------------------------------------
(***************************************************************************)
(* The query builder: ArxivSearcher.build_query, QueryAPI.py lines 6-10,   *)
(* and build_arxiv_query, ver6_gen_search_query.py lines 6-30 (the same    *)
(* four statements).  White space is the space character.                  *)
(***************************************************************************)
\* the keyword strings and the summaries of the model: words, punctuation
\* inside and around words, a plus sign, leading and trailing spaces
QueryKeywordTexts ==
    { <<"a", " ", "B">>, <<"c", "-", "d">>, <<"-">>, <<" ", "7", "+", " ">> }
QuerySummaryTexts ==
    { <<>>, <<"e", ".", " ", " ", "f">>, <<"+">>, <<" ">> }

\* a score is a number or null; build_query never reads it
QueryScores == {"0.9", "null"}

\* a substitution that deletes nothing
ReSubNothing(text) == text

\* line 9: re.sub(r"[^a-zA-Z0-9\s]", "", combined)
ReSubNonAlnum(text) == SelectSeq(text, LAMBDA c : IsAlnum(c) \/ c = " ")

\* the query built from every keyword of the list
BuildQueryAllKeywords(pairs, summary, n) ==
    LET kws == [i \in DOMAIN pairs |-> pairs[i][1]]
        combined == Join(<<" ">>, kws) \o <<" ">> \o summary
    IN  Join(<<"+">>, SplitWords(ReSubNonAlnum(combined)))

\* lines 6-10
BuildQuery(pairs, summary, n) ==
    LET top == Slice(pairs, 0, n)
        kws == [i \in DOMAIN top |-> top[i][1]]
        combined == Join(<<" ">>, kws) \o <<" ">> \o summary
    IN  Join(<<"+">>, SplitWords(ReSubNonAlnum(combined)))

QueryInit ==
    /\ ranked_keywords \in SeqsUpTo(QueryKeywordTexts \X QueryScores, MaxKeywords)
    /\ query_summary \in QuerySummaryTexts
    /\ top_n \in 0..MaxKeywords
    /\ query = None
    /\ query_pc = "call"
    /\ paragraphs = <<>> /\ get_summary = <<>> /\ retry_on_fail = <<>> /\ idx = <<>>
    /\ extract_pc = <<>> /\ keywords_per_paragraph = <<>> /\ summary_per_paragraph = <<>>
    /\ call_log = <<>> /\ heuristic_idx = <<>>
    /\ lines = <<>> /\ line_no = <<>> /\ buffer = <<>> /\ paras = <<>> /\ pdf_pc = <<>>
    /\ extract_impl = <<>> /\ doc_type = <<>> /\ parsers_called = <<>> /\ extract_exc = <<>>
    /\ para_ends = <<>>
    /\ rank_impl = <<>> /\ keywords = <<>> /\ ranked = <<>> /\ rank_exc = <<>> /\ rank_pc = <<>>
    /\ paragraph_summary = <<>> /\ papers = <<>> /\ top_k = <<>> /\ top_papers = <<>>
    /\ sem_pc = <<>>
    /\ paper = <<>> /\ style = <<>> /\ now = <<>> /\ citation = <<>> /\ fmt_pc = <<>>
    /\ paper_given = <<>> /\ citation_log = <<>>
    /\ cleaned_paras = <<>> /\ web_idx = <<>> /\ web_keywords = <<>> /\ web_summaries = <<>>
    /\ results = <<>> /\ citations_saved = <<>> /\ llm_response = <<>> /\ raised = <<>>
    /\ page = <<>> /\ web_pc = <<>>
    /\ pipe_impl = <<>> /\ cleaned_paragraphs = <<>> /\ pipe_top_k = <<>> /\ extracted = <<>>
    /\ pipe_idx = <<>> /\ all_results = <<>> /\ search_counts = <<>> /\ citations = <<>>
    /\ save_pos = <<>> /\ processing = <<>> /\ error_message = <<>> /\ viewer_paragraphs = <<>>
    /\ pipe_pc = <<>>
    /\ caller = <<>> /\ upload_ext = <<>> /\ paper_exists = <<>> /\ file_exists = <<>>
    /\ status_answer = <<>> /\ step_log = <<>> /\ tasks_impl = <<>> /\ upload_answer = <<>>
    /\ clean_impl = <<>> /\ clean_input = <<>> /\ min_words = <<>> /\ remove_short = <<>>
    /\ clean_idx = <<>> /\ segmented = <<>> /\ kept_sentences = <<>> /\ cleaned = <<>>
    /\ clean_pc = <<>>
    /\ request_query = <<>> /\ request_page = <<>> /\ fetched_total = <<>> /\ context = <<>>
    /\ index_pc = <<>>
    /\ page_impl = <<>> /\ session_query = <<>> /\ session_page = <<>> /\ results_total = <<>>
    /\ shown = <<>> /\ reruns = <<>>

\* lines 6-10: one call of build_query
QueryBuild ==
    /\ query_pc = "call"
    /\ query' = BuildQuery(ranked_keywords, query_summary, top_n)
    /\ query_pc' = "returned"
    /\ UNCHANGED <<ranked_keywords, query_summary, top_n>>
    /\ UNCHANGED outsideQuery

SpecQuery == QueryInit /\ [][QueryBuild]_vars

-----------------------------------------------------------------------------
(***************************************************************************)
(* Properties of the query builder                                          *)
(***************************************************************************)
\* C13: the string build_query returns has no character outside
\* [A-Za-z0-9+], does not start or end with '+' and has no two '+' in a row.
C13_QueryCharactersSafe ==
    query_pc = "returned" =>
        /\ \A i \in DOMAIN query : IsAlnum(query[i]) \/ query[i] = "+"
        /\ query # <<>> => (query[1] # "+" /\ query[Len(query)] # "+")
        /\ \A i \in 1..(Len(query) - 1) : ~(query[i] = "+" /\ query[i + 1] = "+")

C13_Witness ==
    /\ query_pc = "returned"
    /\ Len(ranked_keywords) = 2
    /\ ranked_keywords[1][1] = <<" ", "7", "+", " ">>
    /\ ranked_keywords[2][1] = <<"c", "-", "d">>
    /\ top_n = 2
    /\ query_summary = <<"e", ".", " ", " ", "f">>
    /\ query = <<"7", "+", "c", "d", "+", "e", "+", "f">>

\* the tokens of one string: its white-space separated words once every
\* character that is not a letter, a digit or white space is deleted
QueryTokens(text) ==
    SplitWords(SelectSeq(text, LAMBDA c : IsAlnum(c) \/ c = " "))

\* the tokens of the first n keyword strings, in order
RECURSIVE KeywordTokens(_, _)
KeywordTokens(pairs, n) ==
    IF n = 0 \/ pairs = <<>> THEN <<>>
    ELSE QueryTokens(pairs[1][1]) \o KeywordTokens(Tail(pairs), n - 1)

\* C14: the result of build_query is the '+'-join of the tokens of the first
\* top_n keyword strings followed by the tokens of the summary; it is a
\* function of these alone, so the scores (null included) and the keywords
\* after position top_n never change it.
C14_QueryFromTopKeywordsAndSummary ==
    query_pc = "returned" =>
        query = Join(<<"+">>, KeywordTokens(ranked_keywords, top_n)
                                  \o QueryTokens(query_summary))

C14_Witness ==
    /\ query_pc = "returned"
    /\ top_n = 1
    /\ Len(ranked_keywords) = 2
    /\ ranked_keywords[1][2] = "null"
    /\ ranked_keywords[2][1] = <<"a", " ", "B">>
    /\ query = <<"c", "d", "+", "e", "+", "f">>

-----------------------------------------------------------------------------
(***************************************************************************)
(* The cleaner: ParagraphCleaner, Cleaner.py lines 6-20, and               *)
(* clean_paragraph_spacy, ver11_check_Main.py lines 125-155, which has the *)
(* parameter remove_short in addition.  White space is the space           *)
(* character.  The sentence segmenter is not part of the repository: it    *)
(* may cut the text between any two words.                                  *)
(***************************************************************************)
\* the paragraphs of the model: doubled spaces, HTML tags, blank, one word
CleanInputTexts ==
    { <<"a", " ", " ", "b", " ", "c">>,
      <<"<", "i", ">", "d", "<", "/", "i", ">", " ", "e">>,
      <<" ">>,
      <<"f">> }

\* Cleaner.py line 15: re.sub(r'<.*?>', '', text)
RECURSIVE RemoveTags(_)
RemoveTags(text) ==
    IF text = <<>> THEN <<>>
    ELSE IF Head(text) = "<" /\ \E k \in 2..Len(text) : text[k] = ">"
    THEN LET close == CHOOSE k \in 2..Len(text) :
                          text[k] = ">" /\ \A j \in 2..(k - 1) : text[j] # ">"
         IN  RemoveTags(SubSeq(text, close + 1, Len(text)))
    ELSE <<Head(text)>> \o RemoveTags(Tail(text))

\* Cleaner.py line 16: re.sub(r'\s+', ' ', text).strip()
NormalizeSpace(text) == Join(<<" ">>, SplitWords(text))

\* Cleaner.py lines 17-18: the stripped sentence texts a segmenter may give:
\* every way of cutting the words of the text into runs
RECURSIVE WordRuns(_)
WordRuns(words) ==
    IF words = <<>> THEN {<<>>}
    ELSE UNION { {<<SubSeq(words, 1, k)>> \o rest :
                     rest \in WordRuns(SubSeq(words, k + 1, Len(words)))} :
                 k \in 1..Len(words) }
Segmentations(text) ==
    {[i \in DOMAIN runs |-> Join(<<" ">>, runs[i])] : runs \in WordRuns(SplitWords(text))}

\* a filter that keeps every sentence
KeepsEverySentence(sentence, least) == TRUE

\* Cleaner.py line 19: len(s.split()) >= self.min_words
KeepsSentence(sentence, least) == Len(SplitWords(sentence)) >= least

CleanInit ==
    /\ clean_impl \in {"ParagraphCleaner", "clean_paragraph_spacy"}
    /\ clean_input \in SeqsUpTo(CleanInputTexts, MaxParas)
    /\ min_words \in 0..MaxMinWords
    /\ remove_short \in IF clean_impl = "ParagraphCleaner" THEN {TRUE} ELSE BOOLEAN
    /\ clean_idx = 0
    /\ segmented = <<>>
    /\ kept_sentences = <<>>
    /\ cleaned = <<>>
    /\ clean_pc = "clean"
    /\ paragraphs = <<>> /\ get_summary = <<>> /\ retry_on_fail = <<>> /\ idx = <<>>
    /\ extract_pc = <<>> /\ keywords_per_paragraph = <<>> /\ summary_per_paragraph = <<>>
    /\ call_log = <<>> /\ heuristic_idx = <<>>
    /\ lines = <<>> /\ line_no = <<>> /\ buffer = <<>> /\ paras = <<>> /\ pdf_pc = <<>>
    /\ extract_impl = <<>> /\ doc_type = <<>> /\ parsers_called = <<>> /\ extract_exc = <<>>
    /\ para_ends = <<>>
    /\ rank_impl = <<>> /\ keywords = <<>> /\ ranked = <<>> /\ rank_exc = <<>> /\ rank_pc = <<>>
    /\ paragraph_summary = <<>> /\ papers = <<>> /\ top_k = <<>> /\ top_papers = <<>>
    /\ sem_pc = <<>>
    /\ paper = <<>> /\ style = <<>> /\ now = <<>> /\ citation = <<>> /\ fmt_pc = <<>>
    /\ paper_given = <<>> /\ citation_log = <<>>
    /\ cleaned_paras = <<>> /\ web_idx = <<>> /\ web_keywords = <<>> /\ web_summaries = <<>>
    /\ results = <<>> /\ citations_saved = <<>> /\ llm_response = <<>> /\ raised = <<>>
    /\ page = <<>> /\ web_pc = <<>>
    /\ pipe_impl = <<>> /\ cleaned_paragraphs = <<>> /\ pipe_top_k = <<>> /\ extracted = <<>>
    /\ pipe_idx = <<>> /\ all_results = <<>> /\ search_counts = <<>> /\ citations = <<>>
    /\ save_pos = <<>> /\ processing = <<>> /\ error_message = <<>> /\ viewer_paragraphs = <<>>
    /\ pipe_pc = <<>>
    /\ caller = <<>> /\ upload_ext = <<>> /\ paper_exists = <<>> /\ file_exists = <<>>
    /\ status_answer = <<>> /\ step_log = <<>> /\ tasks_impl = <<>> /\ upload_answer = <<>>
    /\ ranked_keywords = <<>> /\ query_summary = <<>> /\ top_n = <<>> /\ query = <<>>
    /\ query_pc = <<>>
    /\ request_query = <<>> /\ request_page = <<>> /\ fetched_total = <<>> /\ context = <<>>
    /\ index_pc = <<>>
    /\ page_impl = <<>> /\ session_query = <<>> /\ session_page = <<>> /\ results_total = <<>>
    /\ shown = <<>> /\ reruns = <<>>

\* Cleaner.py lines 12-20: one paragraph of the list: _clean, and the paragraph
\* kept when its cleaned text is not empty
CleanParagraph ==
    /\ clean_pc = "clean"
    /\ clean_idx < Len(clean_input)
    /\ \E sentences \in Segmentations(NormalizeSpace(RemoveTags(clean_input[clean_idx + 1]))) :
         LET kept == IF remove_short
                     THEN SelectSeq(sentences, LAMBDA st : KeepsSentence(st, min_words))
                     ELSE sentences
             text == Join(<<" ">>, kept)
         IN  /\ segmented' = Append(segmented, sentences)
             /\ kept_sentences' = Append(kept_sentences, kept)
             /\ cleaned' = IF text # <<>> THEN Append(cleaned, text) ELSE cleaned
    /\ clean_idx' = clean_idx + 1
    /\ UNCHANGED <<clean_impl, clean_input, min_words, remove_short, clean_pc>>
    /\ UNCHANGED outsideClean

\* Cleaner.py line 12: the list is returned
CleanReturn ==
    /\ clean_pc = "clean"
    /\ clean_idx = Len(clean_input)
    /\ clean_pc' = "returned"
    /\ UNCHANGED <<clean_impl, clean_input, min_words, remove_short, clean_idx, segmented,
                   kept_sentences, cleaned>>
    /\ UNCHANGED outsideClean

CleanNext == CleanParagraph \/ CleanReturn

SpecClean == CleanInit /\ [][CleanNext]_vars

-----------------------------------------------------------------------------
(***************************************************************************)
(* Properties of the cleaner                                                *)
(***************************************************************************)
\* a is b with some entries left out
RECURSIVE IsSubsequence(_, _)
IsSubsequence(a, b) ==
    IF a = <<>> THEN TRUE
    ELSE IF b = <<>> THEN FALSE
    ELSE IF Head(a) = Head(b) THEN IsSubsequence(Tail(a), Tail(b))
    ELSE IsSubsequence(a, Tail(b))

\* the kept sentences are a subsequence of the segmenter's sentences, and the
\* list returned holds the non-empty cleaned texts in the order of the input
CleanedInOrder ==
    /\ Len(kept_sentences) = Len(clean_input)
    /\ \A p \in DOMAIN kept_sentences : IsSubsequence(kept_sentences[p], segmented[p])
    /\ \A i \in DOMAIN cleaned : cleaned[i] # <<>>
    /\ cleaned = SelectSeq([p \in DOMAIN kept_sentences |-> Join(<<" ">>, kept_sentences[p])],
                           LAMBDA t : t # <<>>)

\* C15 as stated: whatever the paragraphs and the segmentation, every sentence
\* kept has at least min_words words, the kept sentences are a subsequence of
\* the segmenter's sentences, and only non-empty cleaned paragraphs are
\* returned, in the order of the input.
C15_KeptSentencesLongEnough ==
    clean_pc = "returned" =>
        /\ \A p \in DOMAIN kept_sentences : \A k \in DOMAIN kept_sentences[p] :
               Len(SplitWords(kept_sentences[p][k])) >= min_words
        /\ CleanedInOrder

\* C15 with the parameter taken into account: the bound on the words of a kept
\* sentence holds when remove_short is set, which is the default and the only
\* behaviour of ParagraphCleaner; with remove_short unset every sentence is kept.
C15_KeptSentencesLongEnoughWhenRemoving ==
    clean_pc = "returned" =>
        /\ remove_short =>
               \A p \in DOMAIN kept_sentences : \A k \in DOMAIN kept_sentences[p] :
                   Len(SplitWords(kept_sentences[p][k])) >= min_words
        /\ ~remove_short => kept_sentences = segmented
        /\ CleanedInOrder

C15_Witness ==
    /\ clean_pc = "returned"
    /\ remove_short
    /\ min_words = 2
    /\ Len(clean_input) = 2
    /\ Len(segmented[1]) = 2 /\ Len(kept_sentences[1]) = 1
    /\ kept_sentences[2] = <<>>
    /\ Len(cleaned) = 1

-----------------------------------------------------------------------------
(***************************************************************************)
(* Properties of extract_keywords_and_summary                               *)
(***************************************************************************)
CallsFor(i) == SelectSeq(call_log, LAMBDA c : c.idx = i)

ParsedCallFor(i) == \E k \in DOMAIN call_log : call_log[k].idx = i /\ call_log[k].parsed

\* C1 as stated: a paragraph gets at most two extraction calls, the second only
\* after the first failed to parse, and the heuristic is used only for a
\* paragraph whose first response and whose retry response both failed to parse.
C1_HeuristicOnlyAfterFailedRetry ==
    \A i \in 0..(Len(paragraphs) - 1) :
        LET calls == CallsFor(i)
        IN  /\ Len(calls) <= 2
            /\ Len(calls) = 2 => ~calls[1].parsed
            /\ i \in heuristic_idx =>
                   /\ Len(calls) = 2
                   /\ ~calls[1].parsed
                   /\ ~calls[2].parsed

\* C1 (amended): with retry_on_fail set, as stated; in every case a paragraph
\* gets one first call, a retry call only right after its first response failed
\* to parse and only when retry_on_fail is set, never more than two calls, and
\* the heuristic only when every response of the paragraph failed to parse:
\* two responses when retry_on_fail is set, the single one when it is not.
C1_RetryThenHeuristic ==
    /\ \A k \in DOMAIN call_log :
          IF call_log[k].prompt = "first"
          THEN \A j \in 1..(k - 1) : call_log[j].idx # call_log[k].idx
          ELSE /\ retry_on_fail
               /\ k > 1
               /\ call_log[k - 1].idx = call_log[k].idx
               /\ call_log[k - 1].prompt = "first"
               /\ ~call_log[k - 1].parsed
    /\ \A i \in 0..(Len(paragraphs) - 1) :
          LET calls == CallsFor(i)
          IN  /\ Len(calls) <= 2
              /\ i \in DOMAIN keywords_per_paragraph => Len(calls) >= 1
              /\ i \in heuristic_idx =>
                     /\ ~ParsedCallFor(i)
                     /\ Len(calls) = IF retry_on_fail THEN 2 ELSE 1
    /\ extract_pc = "returned" =>
          \A i \in 0..(Len(paragraphs) - 1) : Len(CallsFor(i)) >= 1

\* a run with retry_on_fail set that returned after paragraph 0 parsed at its
\* retry and paragraph 1 took the heuristic after two failed responses
C1_Witness ==
    /\ extract_pc = "returned"
    /\ retry_on_fail
    /\ Len(paragraphs) = 2
    /\ heuristic_idx = {1}
    /\ Len(CallsFor(0)) = 2
    /\ ParsedCallFor(0)
    /\ Len(CallsFor(1)) = 2

\* C2: the function never raises on an LLM response text, and when it has
\* returned every paragraph index 0..n-1 has a keyword list and a summary.
C2_NeverHaltsOnMalformedOutput ==
    /\ extract_pc # "raised"
    /\ (extract_pc = "returned" /\ get_summary) =>
          \A i \in 0..(Len(paragraphs) - 1) :
              /\ i \in DOMAIN keywords_per_paragraph
              /\ i \in DOMAIN summary_per_paragraph
              /\ summary_per_paragraph[i] # None

\* C20: for a paragraph that took the heuristic fallback, the keyword list is
\* the first word of each '.'-delimited segment that has a word, in the order
\* of the segments, cut to at most 8 entries; and the summary (when summaries
\* are asked for) is the first '.'-delimited segment without its leading and
\* trailing white space.
C20_HeuristicFallbackValues ==
    \A i \in heuristic_idx :
        LET p == paragraphs[i + 1]
            dots == {k \in DOMAIN p : p[k] = "."}
            \* the segments of p: the text between two neighbouring full stops
            starts == {1} \cup {k + 1 : k \in dots}
            SegmentFrom(a) ==
                LET later == {k \in dots : k >= a}
                    b == IF later = {} THEN Len(p) + 1
                         ELSE CHOOSE k \in later : \A h \in later : k <= h
                IN  SubSeq(p, a, b - 1)
            HasWord(seg) == \E j \in DOMAIN seg : seg[j] # " "
            wordy == {a \in starts : HasWord(SegmentFrom(a))}
            \* the first word of a segment: its first run of non-blank characters
            FirstWord(seg) ==
                LET a == CHOOSE j \in DOMAIN seg :
                             seg[j] # " " /\ \A h \in 1..(j - 1) : seg[h] = " "
                    b == CHOOSE j \in a..Len(seg) :
                             /\ \A h \in a..j : seg[h] # " "
                             /\ j = Len(seg) \/ seg[j + 1] = " "
                IN  SubSeq(seg, a, b)
            kws == keywords_per_paragraph[i]
            first == SegmentFrom(1)
        IN  /\ i \in DOMAIN keywords_per_paragraph
            /\ Len(kws) = IF Cardinality(wordy) < 8 THEN Cardinality(wordy) ELSE 8
            /\ \A k \in DOMAIN kws :
                   \E a \in wordy :
                       /\ Cardinality({c \in wordy : c < a}) = k - 1
                       /\ kws[k] = FirstWord(SegmentFrom(a))
            /\ get_summary =>
                   /\ i \in DOMAIN summary_per_paragraph
                   /\ LET sm == summary_per_paragraph[i]
                      IN  /\ sm = <<>> \/ (sm[1] # " " /\ sm[Len(sm)] # " ")
                          /\ \E a \in 0..Len(first) :
                                 /\ a + Len(sm) <= Len(first)
                                 /\ SubSeq(first, a + 1, a + Len(sm)) = sm
                                 /\ \A h \in (1..a) \cup ((a + Len(sm) + 1)..Len(first)) :
                                        first[h] = " "

\* the heuristic cut nine first words to eight, and for another paragraph left
\* out a segment without a word and stripped the summary
C20_Witness ==
    /\ extract_pc = "returned"
    /\ get_summary
    /\ heuristic_idx = {0, 1}
    /\ Len(SplitOn(paragraphs[1], ".")) = 9
    /\ Len(keywords_per_paragraph[0]) = 8
    /\ paragraphs[2] = <<"b", ".", ".", "a">>
    /\ keywords_per_paragraph[1] = << <<"b">>, <<"a">> >>
    /\ summary_per_paragraph[1] = <<"b">>

-----------------------------------------------------------------------------
(***************************************************************************)
(* Failures of the search, and what a poll of the loading page is told      *)
(***************************************************************************)
\* the number of step_log entries of paragraph i that are the step named
StepCount(i, name) ==
    Len(SelectSeq(step_log, LAMBDA e : e.idx = i /\ e.step = name))

\* C25: when ArxivSearcher.search raises a network or a parse error under
\* ver9's process_paper, the search of that paragraph was tried once and was
\* the last step taken, nothing of the results was stored, the handler has
\* recorded the error text with processing False and has returned, and the
\* citations stored before the run are all still there.
C25_SearchErrorRecorded ==
    ( /\ tasks_impl = "ver9"
      /\ error_message \in {ErrorMessages.Search, ErrorMessages.Parse} ) =>
        /\ pipe_pc = "caught"
        /\ ~processing
        /\ citations = <<StaleCitation>>
        /\ save_pos = 0
        /\ StepCount(pipe_idx, "search") = 1
        /\ step_log[Len(step_log)] = [idx |-> pipe_idx, step |-> "search"]

\* the search of the second paragraph answered with a feed that does not
\* parse, after the first paragraph had its result
C25_Witness ==
    /\ tasks_impl = "ver9"
    /\ pipe_pc = "caught"
    /\ error_message = ErrorMessages.Parse
    /\ pipe_idx = 1
    /\ Len(all_results) = 1
    /\ citations = <<StaleCitation>>
    /\ ~processing

\* C26: a poll of an uploaded paper is answered 'complete' only once
\* process_paper has stored the citations of every paragraph and has set
\* processing to False.
C26_CompleteOnlyAfterSaved ==
    (caller = "dashboard_view" /\ status_answer.status = "complete") =>
        /\ pipe_pc = "done"
        /\ save_pos = Len(all_results)
        /\ ~processing

\* views.py lines 198-214: loading_page redirects to the viewer
LoadingPageRedirects ==
    paper_exists /\ ~processing /\ (citations # <<>> \/ error_message # None)

\* a file is uploaded to dashboard_view
UploadInit == PipeInit /\ caller = "dashboard_view"
    /\ request_query = <<>> /\ request_page = <<>> /\ fetched_total = <<>> /\ context = <<>>
    /\ index_pc = <<>>
    /\ page_impl = <<>> /\ session_query = <<>> /\ session_page = <<>> /\ results_total = <<>>
    /\ shown = <<>> /\ reruns = <<>>

\* the thread started by dashboard_view is scheduled as long as it has a step
\* to take, and the calls it makes return or raise
SpecPipeFair ==
    /\ UploadInit
    /\ [][PipeNext]_vars
    /\ WF_vars(ProcessPaperStep)
    /\ WF_vars(ProcessPaperAsyncExcept)

UploadAccepted ==
    caller = "dashboard_view" /\ upload_answer = <<"redirect", "loading_page">>

\* C24: dashboard_view has answered an accepted upload with the redirect to
\* the loading page before process_paper has taken a step; from an accepted
\* upload on, a poll is in the end never answered 'processing' again; and a
\* poll answered otherwise is not followed by a poll answered 'processing'.
C24_PollingObservesCompletion ==
    /\ []((caller = "dashboard_view" /\ pipe_pc = "start") =>
              /\ upload_answer = <<"redirect", "loading_page">>
              /\ processing
              /\ step_log = <<>>)
    /\ [][(UploadAccepted /\ status_answer.status \notin {"none", "processing"}) =>
              status_answer'.status # "processing"]_vars
    /\ UploadAccepted ~> [](ProcessingStatus.status # "processing")

\* a poll was answered 'processing' while the thread ran, and the poll after
\* process_paper returned was answered 'complete'
C24_Witness ==
    /\ UploadAccepted
    /\ pipe_pc = "done"
    /\ status_answer.status = "complete"
    /\ ~processing
    /\ Len(cleaned_paragraphs) = 2

-----------------------------------------------------------------------------
(***************************************************************************)
(* The search page: index, ver1_Main_webUI/search/views.py lines 14-63.    *)
(* fetch_results is the arXiv client; the view uses the number of results  *)
(* and their order only.                                                   *)
(***************************************************************************)
\* views.py line 16: page_size = 15
PageSize == 15

DigitChars == <<"0", "1", "2", "3", "4", "5", "6", "7", "8", "9">>

\* the decimal text of a number below 100
DecimalText(n) ==
    IF n < 10 THEN <<DigitChars[n + 1]>>
    ELSE <<DigitChars[(n \div 10) + 1], DigitChars[(n % 10) + 1]>>

\* the values of the parameter page: none, numbers, zero, a negative number,
\* letters, the empty text, a decimal fraction, a number after a space
PageParams ==
    {None} \cup {DecimalText(n) : n \in 0..MaxPageParam}
           \cup { <<"-", "1">>, <<"a", "b", "c">>, <<>>, <<"2", ".", "5">>, <<" ", "2">> }

\* the values of the parameter query: none or empty, blank, a word
QueryParams == { <<>>, <<" ">>, <<"q">>, <<" ", "q", " ">> }

\* views.py line 20: int(page) of a text: white space around it dropped, a
\* sign, then digits only; anything else is a ValueError
RECURSIVE DigitsValue(_)
DigitsValue(digits) ==
    IF digits = <<>> THEN 0
    ELSE LET last == digits[Len(digits)]
             d == CHOOSE k \in 0..9 : DigitChars[k + 1] = last
         IN  10 * DigitsValue(SubSeq(digits, 1, Len(digits) - 1)) + d
ParseInt(text) ==
    LET t == Strip(text)
        signed == t # <<>> /\ Head(t) \in {"+", "-"}
        digits == IF signed THEN Tail(t) ELSE t
        is_number == /\ digits # <<>>
                     /\ \A i \in DOMAIN digits :
                            \E k \in DOMAIN DigitChars : DigitChars[k] = digits[i]
    IN  IF ~is_number THEN [ok |-> FALSE, value |-> 0]
        ELSE [ok |-> TRUE,
              value |-> IF signed /\ Head(t) = "-" THEN 0 - DigitsValue(digits)
                        ELSE DigitsValue(digits)]

\* views.py lines 17-24: request.GET.get('page', 1), int(page), page < 1
PageOfRequest(param) ==
    IF param = None THEN 1
    ELSE IF ParseInt(param).ok
    THEN IF ParseInt(param).value < 1 THEN 1 ELSE ParseInt(param).value
    ELSE 1

\* views.py line 39: len(results[start:start + page_size]), start >= 0
SliceLen(total, start) ==
    LET stop == IF start + PageSize < total THEN start + PageSize ELSE total
    IN  IF stop > start THEN stop - start ELSE 0

IndexInit ==
    /\ request_query \in QueryParams
    /\ request_page \in PageParams
    /\ fetched_total \in 0..MaxResults
    /\ context = None
    /\ index_pc = "request"
    /\ paragraphs = <<>> /\ get_summary = <<>> /\ retry_on_fail = <<>> /\ idx = <<>>
    /\ extract_pc = <<>> /\ keywords_per_paragraph = <<>> /\ summary_per_paragraph = <<>>
    /\ call_log = <<>> /\ heuristic_idx = <<>>
    /\ lines = <<>> /\ line_no = <<>> /\ buffer = <<>> /\ paras = <<>> /\ pdf_pc = <<>>
    /\ extract_impl = <<>> /\ doc_type = <<>> /\ parsers_called = <<>> /\ extract_exc = <<>>
    /\ para_ends = <<>>
    /\ rank_impl = <<>> /\ keywords = <<>> /\ ranked = <<>> /\ rank_exc = <<>> /\ rank_pc = <<>>
    /\ paragraph_summary = <<>> /\ papers = <<>> /\ top_k = <<>> /\ top_papers = <<>>
    /\ sem_pc = <<>>
    /\ paper = <<>> /\ style = <<>> /\ now = <<>> /\ citation = <<>> /\ fmt_pc = <<>>
    /\ paper_given = <<>> /\ citation_log = <<>>
    /\ cleaned_paras = <<>> /\ web_idx = <<>> /\ web_keywords = <<>> /\ web_summaries = <<>>
    /\ results = <<>> /\ citations_saved = <<>> /\ llm_response = <<>> /\ raised = <<>>
    /\ page = <<>> /\ web_pc = <<>>
    /\ pipe_impl = <<>> /\ cleaned_paragraphs = <<>> /\ pipe_top_k = <<>> /\ extracted = <<>>
    /\ pipe_idx = <<>> /\ all_results = <<>> /\ search_counts = <<>> /\ citations = <<>>
    /\ save_pos = <<>> /\ processing = <<>> /\ error_message = <<>> /\ viewer_paragraphs = <<>>
    /\ pipe_pc = <<>> /\ caller = <<>> /\ upload_ext = <<>> /\ paper_exists = <<>>
    /\ file_exists = <<>> /\ status_answer = <<>> /\ step_log = <<>> /\ tasks_impl = <<>>
    /\ upload_answer = <<>>
    /\ ranked_keywords = <<>> /\ query_summary = <<>> /\ top_n = <<>> /\ query = <<>>
    /\ query_pc = <<>>
    /\ clean_impl = <<>> /\ clean_input = <<>> /\ min_words = <<>> /\ remove_short = <<>>
    /\ clean_idx = <<>> /\ segmented = <<>> /\ kept_sentences = <<>> /\ cleaned = <<>>
    /\ clean_pc = <<>>
    /\ page_impl = <<>> /\ session_query = <<>> /\ session_page = <<>> /\ results_total = <<>>
    /\ shown = <<>> /\ reruns = <<>>

\* views.py lines 14-63: one request
Index ==
    /\ index_pc = "request"
    /\ LET stripped == Strip(request_query)
           page_no == PageOfRequest(request_page)
           \* math.ceil(total / page_size)
           ceil == (fetched_total + PageSize - 1) \div PageSize
           max_page == IF ceil < 1 THEN 1 ELSE ceil
           clamped == IF page_no > max_page THEN max_page ELSE page_no
           start_index == (clamped - 1) * PageSize
       IN  context' =
               IF stripped # <<>>
               THEN [query |-> stripped, papers |-> SliceLen(fetched_total, start_index),
                     page |-> clamped, page_size |-> PageSize, total |-> fetched_total,
                     start_index |-> start_index, max_page |-> max_page]
               ELSE [query |-> stripped, papers |-> 0,
                     page |-> page_no, page_size |-> PageSize, total |-> 0,
                     start_index |-> 0, max_page |-> 1]
    /\ index_pc' = "rendered"
    /\ UNCHANGED <<request_query, request_page, fetched_total>>
    /\ UNCHANGED outsideIndex

IndexNext == Index

SpecIndex == IndexInit /\ [][IndexNext]_vars

\* C29: for every request, the page handed to the template lies between 1 and
\* max_page, start_index is (page - 1) * page_size, and at most page_size
\* papers are listed.
C29_PageWithinRange ==
    index_pc = "rendered" =>
        /\ 1 <= context.page /\ context.page <= context.max_page
        /\ context.start_index = (context.page - 1) * context.page_size
        /\ context.papers <= context.page_size

-----------------------------------------------------------------------------
(***************************************************************************)
(* The Streamlit search page: ver8_final.py lines 51-173 and               *)
(* ver7_search_bar.py lines 46-120.  A press of a button changes           *)
(* st.session_state and calls st.rerun(), which runs the script again from *)
(* the top; an action is the press together with that run.                 *)
(***************************************************************************)
PageImpls == {"ver7_search_bar", "ver8_final"}

\* Python's //: the quotient rounded down
FloorDiv(a, b) == IF a >= 0 THEN a \div b ELSE 0 - ((0 - a + b - 1) \div b)

\* len(results[start:end]) of a list of total items, as Python slices: a
\* negative index counts from the end, and both are cut to 0..total
PySliceLen(total, start, end) ==
    LET place(i) == IF i < 0 THEN (IF total + i < 0 THEN 0 ELSE total + i)
                    ELSE IF i > total THEN total ELSE i
    IN  IF place(end) > place(start) THEN place(end) - place(start) ELSE 0

\* ver7_search_bar.py line 87: max_page = (max(total - 1, 0)) // page_size
MaxPage7(total) == FloorDiv(IF total - 1 > 0 THEN total - 1 ELSE 0, PageSize)

\* the page index after one run of the script: ver7_search_bar.py line 88
\* clamps it, ver8_final.py leaves it
PageAfterRun(impl, total, p) ==
    IF impl = "ver7_search_bar"
    THEN LET low == IF p > 0 THEN p ELSE 0
         IN  IF low < MaxPage7(total) THEN low ELSE MaxPage7(total)
    ELSE p

\* one run of the script with the query q and the page index p: the landing
\* page (ver8_final.py lines 56-94), or the results, ver8_final.py lines
\* 133-169, ver7_search_bar.py lines 83-120
Rendered(impl, q, total, p) ==
    IF q = <<>>
    THEN [view |-> "landing", page_no |-> 0, page_count |-> 0, listed |-> 0]
    ELSE LET start == PageAfterRun(impl, total, p) * PageSize
         IN  [view |-> "results",
              page_no |-> PageAfterRun(impl, total, p) + 1,
              page_count |-> IF impl = "ver7_search_bar" THEN MaxPage7(total) + 1
                             ELSE FloorDiv(total - 1, PageSize) + 1,
              listed |-> PySliceLen(total, start, start + PageSize)]

StreamInit ==
    /\ page_impl \in PageImpls
    /\ session_query = <<>>
    /\ session_page = 0
    /\ results_total = 0
    /\ shown = Rendered(page_impl, <<>>, 0, 0)
    /\ reruns = 0
    /\ paragraphs = <<>> /\ get_summary = <<>> /\ retry_on_fail = <<>> /\ idx = <<>>
    /\ extract_pc = <<>> /\ keywords_per_paragraph = <<>> /\ summary_per_paragraph = <<>>
    /\ call_log = <<>> /\ heuristic_idx = <<>>
    /\ lines = <<>> /\ line_no = <<>> /\ buffer = <<>> /\ paras = <<>> /\ pdf_pc = <<>>
    /\ extract_impl = <<>> /\ doc_type = <<>> /\ parsers_called = <<>> /\ extract_exc = <<>>
    /\ para_ends = <<>>
    /\ rank_impl = <<>> /\ keywords = <<>> /\ ranked = <<>> /\ rank_exc = <<>> /\ rank_pc = <<>>
    /\ paragraph_summary = <<>> /\ papers = <<>> /\ top_k = <<>> /\ top_papers = <<>>
    /\ sem_pc = <<>>
    /\ paper = <<>> /\ style = <<>> /\ now = <<>> /\ citation = <<>> /\ fmt_pc = <<>>
    /\ paper_given = <<>> /\ citation_log = <<>>
    /\ cleaned_paras = <<>> /\ web_idx = <<>> /\ web_keywords = <<>> /\ web_summaries = <<>>
    /\ results = <<>> /\ citations_saved = <<>> /\ llm_response = <<>> /\ raised = <<>>
    /\ page = <<>> /\ web_pc = <<>>
    /\ pipe_impl = <<>> /\ cleaned_paragraphs = <<>> /\ pipe_top_k = <<>> /\ extracted = <<>>
    /\ pipe_idx = <<>> /\ all_results = <<>> /\ search_counts = <<>> /\ citations = <<>>
    /\ save_pos = <<>> /\ processing = <<>> /\ error_message = <<>> /\ viewer_paragraphs = <<>>
    /\ pipe_pc = <<>> /\ caller = <<>> /\ upload_ext = <<>> /\ paper_exists = <<>>
    /\ file_exists = <<>> /\ status_answer = <<>> /\ step_log = <<>> /\ tasks_impl = <<>>
    /\ upload_answer = <<>>
    /\ ranked_keywords = <<>> /\ query_summary = <<>> /\ top_n = <<>> /\ query = <<>>
    /\ query_pc = <<>>
    /\ clean_impl = <<>> /\ clean_input = <<>> /\ min_words = <<>> /\ remove_short = <<>>
    /\ clean_idx = <<>> /\ segmented = <<>> /\ kept_sentences = <<>> /\ cleaned = <<>>
    /\ clean_pc = <<>>
    /\ request_query = <<>> /\ request_page = <<>> /\ fetched_total = <<>> /\ context = <<>>
    /\ index_pc = <<>>

\* ver8_final.py lines 86-89 and 128-131, ver7_search_bar.py lines 56-59 and
\* 76-79: Search pressed on either form
StreamSearch ==
    /\ reruns < MaxClicks
    /\ \E typed \in QueryParams, total \in 0..MaxResults :
         LET q == Strip(typed)
             n == IF q = <<>> THEN 0 ELSE total
         IN  /\ session_query' = q
             /\ results_total' = n
             /\ session_page' = PageAfterRun(page_impl, n, 0)
             /\ shown' = Rendered(page_impl, q, n, 0)
    /\ reruns' = reruns + 1
    /\ UNCHANGED page_impl
    /\ UNCHANGED outsideStream

\* ver8_final.py lines 162-164, ver7_search_bar.py lines 112-114
StreamPrevious ==
    /\ reruns < MaxClicks
    /\ session_query # <<>>
    /\ page_impl = "ver7_search_bar" => ~(session_page <= 0)
    /\ session_page' = PageAfterRun(page_impl, results_total, session_page - 1)
    /\ shown' = Rendered(page_impl, session_query, results_total, session_page - 1)
    /\ reruns' = reruns + 1
    /\ UNCHANGED <<page_impl, session_query, results_total>>
    /\ UNCHANGED outsideStream

\* ver8_final.py lines 171-173, ver7_search_bar.py lines 116-118
StreamNext ==
    /\ reruns < MaxClicks
    /\ session_query # <<>>
    /\ page_impl = "ver7_search_bar" => ~(session_page >= MaxPage7(results_total))
    /\ session_page' = PageAfterRun(page_impl, results_total, session_page + 1)
    /\ shown' = Rendered(page_impl, session_query, results_total, session_page + 1)
    /\ reruns' = reruns + 1
    /\ UNCHANGED <<page_impl, session_query, results_total>>
    /\ UNCHANGED outsideStream

StreamStep == StreamSearch \/ StreamPrevious \/ StreamNext

SpecStream == StreamInit /\ [][StreamStep]_vars

\* C30: in ver8_final.py, while the results of a query that has any are
\* shown, the page index lies in 0..max_page with max_page = (total - 1) div
\* 15, and the page number displayed lies between 1 and the page count
\* displayed.
C30_PageIndexWithinRange ==
    (page_impl = "ver8_final" /\ shown.view = "results" /\ results_total > 0) =>
        /\ 0 <= session_page
        /\ session_page <= FloorDiv(results_total - 1, PageSize)
        /\ 1 <= shown.page_no
        /\ shown.page_no <= shown.page_count

=============================================================================
